---------------------------- MODULE Spec2Model ----------------------------
(***************************************************************************)
(* Category resolution of jdaetzcemaco/Gorilaver2.                         *)
(*                                                                         *)
(* Three resolvers read one taxonomy (a pandas DataFrame, here a sequence  *)
(* of rows) and answer find_category_match(product_data):                  *)
(*   ImprovedCategoryClassifier   exact > construction_aware >             *)
(*                                enhanced_keyword > fuzzy                 *)
(*   TileFixedCategoryClassifier  exact_structured > tile pattern >        *)
(*                                keyword                                  *)
(*   CategoryClassifier           exact > partial                          *)
(*                                                                         *)
(* Python strings are TLA+ strings; Len, SubSeq and \o act on them.        *)
(* A Python dict is a function whose domain is its set of keys, so a key   *)
(* that is absent is a key outside DOMAIN.  A confidence is a number of    *)
(* ConfUnit-ths (ConfUnit = 300 makes score/100, score/50, score/30 and    *)
(* half-integer fuzzy scores exact).                                       *)
(***************************************************************************)
EXTENDS Integers, Sequences, FiniteSets, TLC

(***************************************************************************)
(* Python str operations                                                   *)
(***************************************************************************)
LowerLetters == "abcdefghijklmnopqrstuvwxyz"
UpperLetters == "ABCDEFGHIJKLMNOPQRSTUVWXYZ"

CharAt(s, i) == SubSeq(s, i, i)

\* str.upper() on one character: the table of the letters that have a capital
UpperTable ==
    [c \in { CharAt(LowerLetters, i) : i \in 1..Len(LowerLetters) } |->
        CharAt(UpperLetters, CHOOSE i \in 1..Len(LowerLetters) : CharAt(LowerLetters, i) = c)]

UpChar(c) == IF c \in DOMAIN UpperTable THEN UpperTable[c] ELSE c

RECURSIVE Upper(_)
\* str.upper(): character by character, half by half
Upper(s) ==
    IF Len(s) = 0 THEN ""
    ELSE IF Len(s) = 1 THEN UpChar(s)
    ELSE Upper(SubSeq(s, 1, Len(s) \div 2)) \o Upper(SubSeq(s, Len(s) \div 2 + 1, Len(s)))

\* sub in s
Contains(sub, s) ==
    \E i \in 0..(Len(s) - Len(sub)) : SubSeq(s, i + 1, i + Len(sub)) = sub

IsSpace(c) == c = " "

\* the blanks in front are dropped
LStrip(s) ==
    IF \A i \in 1..Len(s) : IsSpace(CharAt(s, i)) THEN ""
    ELSE SubSeq(s, CHOOSE i \in 1..Len(s) : /\ ~IsSpace(CharAt(s, i))
                                            /\ \A j \in 1..(i - 1) : IsSpace(CharAt(s, j)),
                Len(s))

\* the blanks at the end are dropped
RStrip(s) ==
    IF \A i \in 1..Len(s) : IsSpace(CharAt(s, i)) THEN ""
    ELSE SubSeq(s, 1, CHOOSE i \in 1..Len(s) :
                          /\ ~IsSpace(CharAt(s, i))
                          /\ \A j \in (i + 1)..Len(s) : IsSpace(CharAt(s, j)))

\* str.strip()
Strip(s) == RStrip(LStrip(s))

\* length of the leading run of non-blank characters of s
WordLen(s) ==
    IF \A i \in 1..Len(s) : ~IsSpace(CharAt(s, i)) THEN Len(s)
    ELSE (CHOOSE i \in 1..Len(s) : /\ IsSpace(CharAt(s, i))
                                   /\ \A j \in 1..(i - 1) : ~IsSpace(CharAt(s, j))) - 1

RECURSIVE Split(_)
\* str.split(): the whitespace-delimited tokens, in order, none empty
Split(s) ==
    LET t == LStrip(s)
        n == WordLen(t)
    IN IF Len(t) = 0 THEN <<>>
       ELSE <<SubSeq(t, 1, n)>> \o Split(SubSeq(t, n + 1, Len(t)))

\* the places from k on where old stands in s
Occurrences(s, k, old) ==
    { p \in k..(Len(s) - Len(old) + 1) : SubSeq(s, p, p + Len(old) - 1) = old }

RECURSIVE ReplaceFrom(_, _, _, _)
\* the leftmost occurrence is replaced and the scan goes on behind it
ReplaceFrom(s, k, old, new) ==
    IF Occurrences(s, k, old) = {} THEN SubSeq(s, k, Len(s))
    ELSE CHOOSE replaced \in
             { SubSeq(s, k, p - 1) \o new \o ReplaceFrom(s, p + Len(old), old, new) :
               p \in { q \in Occurrences(s, k, old) :
                         \A other \in Occurrences(s, k, old) : q <= other } } : TRUE

\* str.replace(old, new): every non-overlapping occurrence, left to right
Replace(s, old, new) == ReplaceFrom(s, 1, old, new)

\* str.replace(old, '')
Remove(s, old) == Replace(s, old, "")

\* dict.get(key, default)
Get(d, key, default) == IF key \in DOMAIN d THEN d[key] ELSE default

Range(seq) == { seq[i] : i \in 1..Len(seq) }

Min(a, b) == IF a < b THEN a ELSE b


(***************************************************************************)
(* Bounds and the inputs the model draws from                              *)
(***************************************************************************)
MaxRows == 2        \* longest taxonomy loaded
MaxSeed == 1        \* hash seeds 0..MaxSeed fix the iteration order of a set

ConfUnit == 300     \* a confidence c stands for c / ConfUnit

\* The rows a taxonomy source may hold.  Rows 2 and 3 name the same triple up
\* to case and the surrounding blank the CSV keeps in Categoria.
RowPool == <<
    [Departamento |-> "FERRETERIA", Familia |-> "TORNILLERIA", Categoria |-> "TORNILLOS",
     Nomenclatura_sugerida |-> "N1", Ejemplo_aplicado |-> "E1"],
    [Departamento |-> "HERRAMIENTAS", Familia |-> "ACCESORIOS", Categoria |-> "BROCAS",
     Nomenclatura_sugerida |-> "N2", Ejemplo_aplicado |-> "E2"],
    [Departamento |-> "Herramientas", Familia |-> "Accesorios", Categoria |-> "Brocas ",
     Nomenclatura_sugerida |-> "N3", Ejemplo_aplicado |-> "E3"],
    [Departamento |-> "FERRETERIA", Familia |-> "CERRAJERIA", Categoria |-> "CHAPAS Y CERRADURAS",
     Nomenclatura_sugerida |-> "N4", Ejemplo_aplicado |-> "E4"],
    [Departamento |-> "PLOMERIA", Familia |-> "GRIFERIA", Categoria |-> "LLAVES",
     Nomenclatura_sugerida |-> "N5", Ejemplo_aplicado |-> "E5"],
    [Departamento |-> "REVESTIMIENTOS", Familia |-> "CERAMICA DE PISOS", Categoria |-> "MADERAS",
     Nomenclatura_sugerida |-> "N6", Ejemplo_aplicado |-> "E6"],
    [Departamento |-> "Revestimientos", Familia |-> "Ceramica de Pisos", Categoria |-> "BALDOSA",
     Nomenclatura_sugerida |-> "N7", Ejemplo_aplicado |-> "E7"] >>

\* A taxonomy: up to MaxRows distinct rows of the pool, in any order.
Taxonomies ==
    { t \in UNION { [1..n -> Range(RowPool)] : n \in 0..MaxRows } :
        \A i, j \in DOMAIN t : i # j => t[i] # t[j] }

\* department / family / category hints of a descriptor
HintPool == {
    <<>>,
    [departamento |-> "herramientas", familia |-> "accesorios", categoria |-> "brocas"],
    [departamento |-> "Herramientas", familia |-> "Accesorios", categoria |-> "Brocas "],
    [departamento |-> "ferreteria", familia |-> "tornilleria", categoria |-> "tornillos"],
    [departamento |-> "ferreteria", familia |-> "cerrajeria", categoria |-> ""] }

\* raw titles; the extractors store a title as original_title and description
TitleStrings == { "TOR PUNTA DE BROCA", "CHAPA BARI", "BAMBOO AMARILLO 21X31",
                  "piso 60x60", "XYZ", "PERFORACION", "YESOS" }

TitlePool ==
    { [original_title |-> t, description |-> t] : t \in TitleStrings }
    \cup { <<>>, [description |-> "brocas"],
           [original_title |-> "XYZ", palabras_clave_categoria |-> <<"mecha", "punta">>] }

\* construction analysis of a descriptor (detected_terms is a dict; its keys matter)
AnalysisPool == {
    <<>>,
    [producto_tipo |-> "tornillo autorroscante con punta de broca",
     construction_analysis |-> [detected_terms |-> {"TOR", "BROCA"}]],
    [producto_tipo |-> "chapa/cerradura",
     construction_analysis |-> [detected_terms |-> {"CHAPA"}]],
    [construction_analysis |-> [detected_terms |-> {"TOR", "BROCA", "CHAPA"}]],
    [construction_analysis |-> [detected_terms |-> {"BROCA"}]] }

NoHints == <<>>
NoTitle == <<>>
NoAnalysis == <<>>
ScrewTitle == [original_title |-> "TOR PUNTA DE BROCA", description |-> "TOR PUNTA DE BROCA"]
TileTitle == [original_title |-> "BAMBOO MADERAS 21X31", description |-> "BAMBOO MADERAS 21X31"]
OtherTitle == [original_title |-> "XYZ", description |-> "XYZ"]

\* the descriptors the callers hand over: hints, titles and analyses combined
Descriptors ==
    { h @@ t @@ a : h \in HintPool, t \in {ScrewTitle}, a \in AnalysisPool }
    \cup { h @@ t @@ a : h \in {NoHints}, t \in TitlePool, a \in {NoAnalysis} }
    \cup { h @@ t @@ a : h \in {NoHints}, t \in {NoTitle, OtherTitle}, a \in AnalysisPool }
    \cup { h @@ t @@ a : h \in HintPool, t \in {TileTitle, OtherTitle}, a \in {NoAnalysis} }

Classifiers == { "improved", "tile", "plain" }

\* Python's None as a return value
NoMatch == [match_type |-> "None"]

(***************************************************************************)
(* State                                                                   *)
(***************************************************************************)
VARIABLES
    df,                 \* the loaded taxonomy, rows in source order
    category_keywords,  \* ImprovedCategoryClassifier.category_keywords, in dict order
    pc,                 \* "idle": no call in progress; "returned": a call has returned
    classifier,         \* the resolver the last call went to
    product_data,       \* the descriptor of the last call
    result,             \* what the last call returned
    tried,              \* the strategies the last call evaluated, in order
    remembered,         \* an earlier call and what it returned, kept by an observer
    pipeline,           \* the pipeline class processing the current item
    stage,              \* how far process_raw_title / process_product has come
    item,               \* the result dict of the current item
    invoked,            \* the agents called for the current item, in call order
    enhanced_product_data, \* the dict the synthesis stage works on
    formatter,          \* the LabelFormatter: its max_length
    calls,              \* the find_category_match calls in progress, one per thread
    source              \* the taxonomy file the classifier is constructed on

\* the state of one resolver call at a time
resolver_vars == <<df, category_keywords, pc, classifier, product_data, result, tried, remembered>>
\* the state of a pipeline run, of concurrent calls and of a load
others == <<pipeline, stage, item, invoked, enhanced_product_data, formatter, calls, source>>

vars == <<df, category_keywords, pc, classifier, product_data, result, tried, remembered,
          pipeline, stage, item, invoked, enhanced_product_data, formatter, calls, source>>

(***************************************************************************)
(* ImprovedCategoryClassifier                                              *)
(***************************************************************************)
\* the dict every strategy builds from the row it settled on
MatchOf(row, mtype) ==
    [departamento |-> row.Departamento,
     familia |-> row.Familia,
     categoria |-> Strip(row.Categoria),
     nomenclatura_sugerida |-> row.Nomenclatura_sugerida,
     ejemplo_aplicado |-> row.Ejemplo_aplicado,
     match_type |-> mtype]

\* set -> list: the order depends on the process's string hash seed
RECURSIVE Reverse(_)
Reverse(seq) == IF seq = <<>> THEN <<>> ELSE Reverse(Tail(seq)) \o <<Head(seq)>>

RECURSIVE Rotate(_, _)
Rotate(seq, n) == IF n = 0 \/ seq = <<>> THEN seq ELSE Rotate(Tail(seq) \o <<Head(seq)>>, n - 1)

RECURSIVE Dedupe(_)
Dedupe(seq) ==
    IF seq = <<>> THEN <<>>
    ELSE LET front == Dedupe(SubSeq(seq, 1, Len(seq) - 1))
             last == seq[Len(seq)]
         IN IF last \in Range(front) THEN front ELSE Append(front, last)

ListOfSet(seq, seed) ==
    LET elems == Dedupe(seq)
    IN IF seed % 2 = 1 THEN Reverse(Rotate(elems, seed \div 2)) ELSE Rotate(elems, seed \div 2)

\* the synonyms added for one upper-cased category name
Synonyms(categoria) ==
    (IF Contains("CHAPA", categoria) \/ Contains("CERRADURA", categoria)
        THEN <<"MANIJA", "PICAPORTE", "HERRAJE", "PUERTA">> ELSE <<>>)
    \o (IF Contains("TORNILLO", categoria) \/ Contains("FIJACION", categoria)
        THEN <<"TOR", "PERNO", "FIJADOR", "SUJECION">> ELSE <<>>)
    \o (IF Contains("BROCA", categoria)
        THEN <<"PUNTA", "MECHA", "PERFORACION">> ELSE <<>>)
    \o (IF Contains("GRIFO", categoria) \/ Contains("LLAVE", categoria)
        THEN <<"AGUA", "PLOMERIA", "GRIFERIA">> ELSE <<>>)
    \o (IF Contains("BANO", categoria)      \* the source's N WITH TILDE, written N
        THEN <<"BATHROOM", "SANITARIO">> ELSE <<>>)
    \o (IF Contains("COCINA", categoria)
        THEN <<"KITCHEN">> ELSE <<>>)

\* the keyword list of one category
CategoryKeywordList(categoria, seed) ==
    ListOfSet(Split(Remove(Remove(categoria, "Y"), "PARA")) \o Synonyms(categoria), seed)

RECURSIVE BuildCategoryKeywords(_, _)
\* _build_category_keywords: a dict keyed by the upper-cased category name; a
\* name met again keeps its place and takes the new list
BuildCategoryKeywords(d, seed) ==
    IF d = <<>> THEN <<>>
    ELSE LET front == BuildCategoryKeywords(SubSeq(d, 1, Len(d) - 1), seed)
             categoria == Upper(Strip(d[Len(d)].Categoria))
             entry == [categoria |-> categoria, keywords |-> CategoryKeywordList(categoria, seed)]
         IN IF \E i \in DOMAIN front : front[i].categoria = categoria
            THEN [i \in DOMAIN front |-> IF front[i].categoria = categoria THEN entry ELSE front[i]]
            ELSE Append(front, entry)

\* the exact test without upper-casing the hints
ExactRowMatches_CaseSensitive(pd, row) ==
    /\ Get(pd, "departamento", "") = Upper(row.Departamento)
    /\ Get(pd, "familia", "") = Upper(row.Familia)
    /\ Get(pd, "categoria", "") = Upper(Strip(row.Categoria))

\* the test of lines 94-96 on one row
ExactRowMatches(pd, row) ==
    /\ Upper(Get(pd, "departamento", "")) = Upper(row.Departamento)
    /\ Upper(Get(pd, "familia", "")) = Upper(row.Familia)
    /\ Upper(Get(pd, "categoria", "")) = Upper(Strip(row.Categoria))

\* _try_exact_match
TryExactMatch(d, pd) ==
    IF \E i \in DOMAIN d : ExactRowMatches(pd, d[i])
    THEN LET i == CHOOSE i \in DOMAIN d :
                      /\ ExactRowMatches(pd, d[i])
                      /\ \A j \in 1..(i - 1) : ~ExactRowMatches(pd, d[j])
         IN MatchOf(d[i], "exact") @@ [confidence |-> ConfUnit]
    ELSE NoMatch

\* a loop "if score > best_score: best_score = score; best = row" over scores
RECURSIVE BestFrom(_, _, _, _)
BestFrom(scores, i, best, best_score) ==
    IF i > Len(scores) THEN [index |-> best, score |-> best_score]
    ELSE IF scores[i] > best_score THEN BestFrom(scores, i + 1, i, scores[i])
    ELSE BestFrom(scores, i + 1, best, best_score)

\* the loop with "if score >= best_score"
RECURSIVE BestFrom_LastWins(_, _, _, _)
BestFrom_LastWins(scores, i, best, best_score) ==
    IF i > Len(scores) THEN [index |-> best, score |-> best_score]
    ELSE IF scores[i] >= best_score THEN BestFrom_LastWins(scores, i + 1, i, scores[i])
    ELSE BestFrom_LastWins(scores, i + 1, best, best_score)

BestOf_LastWins(scores) == BestFrom_LastWins(scores, 1, 0, 0)

BestOf(scores) == BestFrom(scores, 1, 0, 0)

\* the score without the rule for self-drilling screws
ConstructionScore_NoScrewRule(categoria, detected_terms, producto_tipo) ==
    50 * Cardinality({ term \in detected_terms : Contains(term, categoria) })
    + (IF "CHAPA" \in detected_terms \/ Contains("CERRADURA", producto_tipo)
       THEN (IF \E hw \in {"CHAPA", "CERRADURA", "HERRAJE"} : Contains(hw, categoria) THEN 100 ELSE 0)
            - (IF \E plumb \in {"GRIFO", "LLAVE", "AGUA"} : Contains(plumb, categoria) THEN 50 ELSE 0)
       ELSE 0)

\* the score with the penalty of the door rule also for pure drill-bit categories
ConstructionScore_OnePenalty(categoria, detected_terms, producto_tipo) ==
    50 * Cardinality({ term \in detected_terms : Contains(term, categoria) })
    + (IF "CHAPA" \in detected_terms \/ Contains("CERRADURA", producto_tipo)
       THEN (IF \E hw \in {"CHAPA", "CERRADURA", "HERRAJE"} : Contains(hw, categoria) THEN 100 ELSE 0)
            - (IF \E plumb \in {"GRIFO", "LLAVE", "AGUA"} : Contains(plumb, categoria) THEN 50 ELSE 0)
       ELSE 0)
    + (IF "TOR" \in detected_terms /\ "BROCA" \in detected_terms
       THEN IF Contains("TORNILLO", categoria)
                /\ (Contains("BROCA", categoria) \/ Contains("AUTORROSCANTE", categoria))
            THEN 100
            ELSE IF Contains("TORNILLO", categoria) THEN 80
            ELSE IF Contains("BROCA", categoria) /\ ~Contains("TORNILLO", categoria) THEN -50
            ELSE 0
       ELSE 0)

\* the score of one row under _try_construction_aware_match
ConstructionScore(categoria, detected_terms, producto_tipo) ==
    50 * Cardinality({ term \in detected_terms : Contains(term, categoria) })
    + (IF "CHAPA" \in detected_terms \/ Contains("CERRADURA", producto_tipo)
       THEN (IF \E hw \in {"CHAPA", "CERRADURA", "HERRAJE"} : Contains(hw, categoria) THEN 100 ELSE 0)
            - (IF \E plumb \in {"GRIFO", "LLAVE", "AGUA"} : Contains(plumb, categoria) THEN 50 ELSE 0)
       ELSE 0)
    + (IF "TOR" \in detected_terms /\ "BROCA" \in detected_terms
       THEN IF Contains("TORNILLO", categoria)
                /\ (Contains("BROCA", categoria) \/ Contains("AUTORROSCANTE", categoria))
            THEN 100
            ELSE IF Contains("TORNILLO", categoria) THEN 80
            ELSE IF Contains("BROCA", categoria) /\ ~Contains("TORNILLO", categoria) THEN -30
            ELSE 0
       ELSE 0)

ConstructionScores(d, pd) ==
    LET ca == Get(pd, "construction_analysis", <<>>)
        detected_terms == Get(ca, "detected_terms", {})
        producto_tipo == Upper(Get(pd, "producto_tipo", ""))
    IN [i \in DOMAIN d |->
            ConstructionScore(Upper(Strip(d[i].Categoria)), detected_terms, producto_tipo)]

\* min(score / 100, 1.0)
ConstructionConfidence(score) == Min(3 * score, ConfUnit)

\* any best record accepted
ConstructionAccepts_Positive(confidence) == confidence > 0

\* confidence >= 0.3
ConstructionAccepts_NonStrict(confidence) == confidence >= 90

\* confidence > 0.3
ConstructionAccepts(confidence) == confidence > 90

\* _try_construction_aware_match
TryConstructionAwareMatch(d, pd) ==
    LET ca == Get(pd, "construction_analysis", <<>>)
        best == BestOf(ConstructionScores(d, pd))
        confidence == ConstructionConfidence(best.score)
    IN IF DOMAIN ca = {} THEN NoMatch
       ELSE IF best.index # 0 /\ ConstructionAccepts(confidence)
       THEN MatchOf(d[best.index], "construction_aware")
            @@ [confidence |-> confidence, score |-> best.score]
       ELSE NoMatch

RECURSIVE SumSeq(_)
SumSeq(seq) == IF seq = <<>> THEN 0 ELSE Head(seq) + SumSeq(Tail(seq))

RECURSIVE Flatten(_)
Flatten(seqs) == IF seqs = <<>> THEN <<>> ELSE Head(seqs) \o Flatten(Tail(seqs))

KeywordFields == <<"description", "original_title", "producto_tipo", "categoria_especifica">>

\* the search terms of _try_enhanced_keyword_match (lines 168-178)
KeywordSearchTerms(pd) ==
    Flatten([i \in DOMAIN KeywordFields |->
                IF KeywordFields[i] \in DOMAIN pd /\ pd[KeywordFields[i]] # ""
                THEN Split(Upper(pd[KeywordFields[i]])) ELSE <<>>])
    \o (IF "palabras_clave_categoria" \in DOMAIN pd
        THEN [i \in DOMAIN pd.palabras_clave_categoria |-> Upper(pd.palabras_clave_categoria[i])]
        ELSE <<>>)

\* the keyword loop left at its first hit
TermKeywordScore_FirstHit(term, categoria, keywords) ==
    (IF Contains(term, categoria) THEN Len(term) * 2 ELSE 0)
    + (LET hits == { k \in DOMAIN keywords :
                        Contains(term, Upper(keywords[k])) \/ Contains(Upper(keywords[k]), term) }
       IN IF hits = {} THEN 0
          ELSE Len(keywords[CHOOSE k \in hits : \A h \in hits : k <= h]))

\* "if term in keyword.upper() or keyword.upper():", true of every keyword
TermKeywordScore_Truthy(term, categoria, keywords) ==
    (IF Contains(term, categoria) THEN Len(term) * 2 ELSE 0)
    + SumSeq([k \in DOMAIN keywords |-> Len(keywords[k])])

\* what one search term adds to a category's score (lines 189-194); the
\* keywords are visited in the order of the list
TermKeywordScore(term, categoria, keywords) ==
    (IF Contains(term, categoria) THEN Len(term) * 2 ELSE 0)
    + SumSeq([k \in DOMAIN keywords |->
                IF Contains(term, Upper(keywords[k])) \/ Contains(Upper(keywords[k]), term)
                THEN Len(keywords[k]) ELSE 0])

KeywordScore(search_terms, entry) ==
    SumSeq([t \in DOMAIN search_terms |->
                TermKeywordScore(search_terms[t], Upper(entry.categoria), entry.keywords)])

KeywordScores(ck, pd) ==
    LET search_terms == KeywordSearchTerms(pd)
    IN [e \in DOMAIN ck |-> KeywordScore(search_terms, ck[e])]

\* min(score / 50, 1.0)
KeywordConfidence(score) == Min(6 * score, ConfUnit)

\* confidence > 0.2
KeywordAccepts(confidence) == confidence > 60

\* self.df[self.df['Categoria'].str.strip().str.upper() == categoria].iloc[0]
FirstRowOfCategory(d, categoria) ==
    d[CHOOSE i \in DOMAIN d :
        /\ Upper(Strip(d[i].Categoria)) = categoria
        /\ \A j \in 1..(i - 1) : Upper(Strip(d[j].Categoria)) # categoria]

\* _try_enhanced_keyword_match
TryEnhancedKeywordMatch(d, ck, pd) ==
    LET best == BestOf(KeywordScores(ck, pd))
        confidence == KeywordConfidence(best.score)
    IN IF best.index # 0 /\ KeywordAccepts(confidence)
       THEN MatchOf(FirstRowOfCategory(d, ck[best.index].categoria), "enhanced_keyword")
            @@ [confidence |-> confidence, score |-> best.score]
       ELSE NoMatch

\* the search words of _try_fuzzy_match (lines 216-217)
FuzzySearchWords(pd) ==
    Split(Upper(Get(pd, "description", "") \o " " \o Get(pd, "original_title", "")))

\* twice the score of one row under _try_fuzzy_match (a partial match adds
\* half the word's length)
FuzzyScore2(search_words, categoria) ==
    LET cat_words == Split(categoria)
    IN SumSeq([w \in DOMAIN search_words |->
            LET word == search_words[w]
            IN IF Len(word) > 2
               THEN IF Contains(word, categoria) THEN 2 * Len(word)
                    ELSE IF \E c \in DOMAIN cat_words :
                                Contains(word, cat_words[c]) \/ Contains(cat_words[c], word)
                         THEN Len(word)
                    ELSE 0
               ELSE 0])

FuzzyScores2(d, pd) ==
    LET search_words == FuzzySearchWords(pd)
    IN [i \in DOMAIN d |-> FuzzyScore2(search_words, Upper(Strip(d[i].Categoria)))]

\* min(score / 30, 1.0), from twice the score
FuzzyConfidence(score2) == Min(5 * score2, ConfUnit)

\* any best record accepted
FuzzyAccepts_Positive(confidence) == confidence > 0

\* confidence > 0.15
FuzzyAccepts(confidence) == confidence > 45

\* _try_fuzzy_match; the match's score field holds twice the score
TryFuzzyMatch(d, pd) ==
    LET best == BestOf(FuzzyScores2(d, pd))
        confidence == FuzzyConfidence(best.score)
    IN IF best.index # 0 /\ FuzzyAccepts(confidence)
       THEN MatchOf(d[best.index], "fuzzy") @@ [confidence |-> confidence, score |-> best.score]
       ELSE NoMatch

\* the keyword strategy tried before the construction-aware one
ImprovedCascade_KeywordFirst == <<"exact", "enhanced_keyword", "construction_aware", "fuzzy">>

\* the order in which find_category_match tries its strategies
ImprovedCascade == <<"exact", "construction_aware", "enhanced_keyword", "fuzzy">>

ImprovedStrategy(name, d, ck, pd) ==
    CASE name = "exact" -> TryExactMatch(d, pd)
      [] name = "construction_aware" -> TryConstructionAwareMatch(d, pd)
      [] name = "enhanced_keyword" -> TryEnhancedKeywordMatch(d, ck, pd)
      [] name = "fuzzy" -> TryFuzzyMatch(d, pd)

RECURSIVE RunImproved(_, _, _, _, _)
\* find_category_match from the i-th strategy on: the first strategy that
\* returns a match ends the call
RunImproved(i, d, ck, pd, done) ==
    IF i > Len(ImprovedCascade) THEN [result |-> NoMatch, tried |-> done]
    ELSE LET m == ImprovedStrategy(ImprovedCascade[i], d, ck, pd)
         IN IF m # NoMatch THEN [result |-> m, tried |-> Append(done, ImprovedCascade[i])]
            ELSE RunImproved(i + 1, d, ck, pd, Append(done, ImprovedCascade[i]))

ImprovedFindCategoryMatch(d, ck, pd) == RunImproved(1, d, ck, pd, <<>>)

(***************************************************************************)
(* TileFixedCategoryClassifier                                             *)
(***************************************************************************)
Digits == "0123456789"

IsDigit(c) == \E i \in 1..Len(Digits) : CharAt(Digits, i) = c

DigitValue(c) == (CHOOSE i \in 1..Len(Digits) : CharAt(Digits, i) = c) - 1

RECURSIVE ParseInt(_)
\* int() of a string of digits
ParseInt(s) ==
    IF Len(s) = 0 THEN 0
    ELSE 10 * ParseInt(SubSeq(s, 1, Len(s) - 1)) + DigitValue(CharAt(s, Len(s)))

\* the separators of the size pattern that an upper-cased title can hold
SizeSeparators == {"x", "X"}

\* where re.search(r'(\d+)[xX..](\d+)', title) finds its separator: 0 if nowhere
SizeSeparatorAt(title) ==
    LET hits == { k \in 2..(Len(title) - 1) :
                    /\ CharAt(title, k) \in SizeSeparators
                    /\ IsDigit(CharAt(title, k - 1))
                    /\ IsDigit(CharAt(title, k + 1)) }
    IN IF hits = {} THEN 0 ELSE CHOOSE k \in hits : \A h \in hits : k <= h

\* the digits that end at position k (group 1) and that start at k (group 2)
RECURSIVE DigitsBefore(_, _)
DigitsBefore(s, k) ==
    IF k >= 1 /\ IsDigit(CharAt(s, k)) THEN DigitsBefore(s, k - 1) \o CharAt(s, k) ELSE ""

RECURSIVE DigitsFrom(_, _)
DigitsFrom(s, k) ==
    IF k <= Len(s) /\ IsDigit(CharAt(s, k)) THEN CharAt(s, k) \o DigitsFrom(s, k + 1) ELSE ""

\* tile_patterns, in dict order
TilePatterns == <<
    [pattern |-> "BAMBOO", category_type |-> "MADERAS"],
    [pattern |-> "CAPRI", category_type |-> "MONOCOLOR"],
    [pattern |-> "CLAY", category_type |-> "RUSTICO"],
    [pattern |-> "WOOD", category_type |-> "MADERAS"],
    [pattern |-> "STONE", category_type |-> "PIEDRA"],
    [pattern |-> "MARBLE", category_type |-> "MARMOL"],
    [pattern |-> "CEMENT", category_type |-> "CEMENTO"] >>

CommonTileSizes ==
    { <<20, 20>>, <<21, 31>>, <<25, 40>>, <<30, 30>>, <<29, 36>>, <<33, 33>>,
      <<40, 40>>, <<45, 45>>, <<60, 60>>, <<80, 80>>, <<20, 120>> }

\* the category type of the first pattern name the title holds; "" if none
PatternNameIn(title) ==
    IF \E i \in DOMAIN TilePatterns : Contains(TilePatterns[i].pattern, title)
    THEN TilePatterns[CHOOSE i \in DOMAIN TilePatterns :
                        /\ Contains(TilePatterns[i].pattern, title)
                        /\ \A j \in 1..(i - 1) : ~Contains(TilePatterns[j].pattern, title)].category_type
    ELSE ""

\* the title holds a common tile size, either way round
HasCommonTileSize(title) ==
    LET k == SizeSeparatorAt(title)
        width == ParseInt(DigitsBefore(title, k - 1))
        height == ParseInt(DigitsFrom(title, k + 1))
    IN k # 0 /\ (<<width, height>> \in CommonTileSizes \/ <<height, width>> \in CommonTileSizes)

TileRowMatches(row, target_categoria) ==
    /\ Upper(row.Departamento) = "REVESTIMIENTOS"
    /\ Upper(row.Familia) = "CERAMICA DE PISOS"
    /\ Upper(row.Categoria) = target_categoria

GenericTileRowMatches(row) ==
    /\ Upper(row.Departamento) = "REVESTIMIENTOS"
    /\ Upper(row.Familia) = "CERAMICA DE PISOS"
    /\ Contains("BALDOSA", Upper(row.Categoria))

\* the pre-pass without the default category for a title that holds a common
\* size and no pattern name
ClassifyTileProducts_NoDefault(d, pd) ==
    LET title == Upper(Get(pd, "original_title", ""))
        by_name == PatternNameIn(title)
        by_size == HasCommonTileSize(title)
        is_likely_tile == by_name # "" \/ by_size
    IN IF ~is_likely_tile THEN NoMatch
       ELSE IF by_name # "" /\ \E i \in DOMAIN d : TileRowMatches(d[i], by_name)
       THEN LET i == CHOOSE i \in DOMAIN d :
                        /\ TileRowMatches(d[i], by_name)
                        /\ \A j \in 1..(i - 1) : ~TileRowMatches(d[j], by_name)
            IN MatchOf(d[i], "tile_pattern_match")
               @@ [confidence |-> 285, detected_pattern |-> by_name]
       ELSE IF \E i \in DOMAIN d : GenericTileRowMatches(d[i])
       THEN LET i == CHOOSE i \in DOMAIN d :
                        /\ GenericTileRowMatches(d[i])
                        /\ \A j \in 1..(i - 1) : ~GenericTileRowMatches(d[j])
            IN MatchOf(d[i], "tile_generic_match")
               @@ [confidence |-> 255, detected_pattern |-> "GENERIC_TILE"]
       ELSE NoMatch

\* _classify_tile_products
ClassifyTileProducts(d, pd) ==
    LET title == Upper(Get(pd, "original_title", ""))
        by_name == PatternNameIn(title)
        by_size == HasCommonTileSize(title)
        is_likely_tile == by_name # "" \/ by_size
        detected_pattern == IF by_name # "" THEN by_name ELSE "MONOCOLOR"
    IN IF ~is_likely_tile THEN NoMatch
       ELSE IF \E i \in DOMAIN d : TileRowMatches(d[i], detected_pattern)
       THEN LET i == CHOOSE i \in DOMAIN d :
                        /\ TileRowMatches(d[i], detected_pattern)
                        /\ \A j \in 1..(i - 1) : ~TileRowMatches(d[j], detected_pattern)
            IN MatchOf(d[i], "tile_pattern_match")
               @@ [confidence |-> 285, detected_pattern |-> detected_pattern]
       ELSE IF \E i \in DOMAIN d : GenericTileRowMatches(d[i])
       THEN LET i == CHOOSE i \in DOMAIN d :
                        /\ GenericTileRowMatches(d[i])
                        /\ \A j \in 1..(i - 1) : ~GenericTileRowMatches(d[j])
            IN MatchOf(d[i], "tile_generic_match")
               @@ [confidence |-> 255, detected_pattern |-> "GENERIC_TILE"]
       ELSE NoMatch

\* the guard of lines 121-123: all three hints present and non-empty
HasStructuredData(pd) ==
    /\ Get(pd, "departamento", "") # ""
    /\ Get(pd, "familia", "") # ""
    /\ Get(pd, "categoria", "") # ""

\* lines 127-140
TileExactMatch(d, pd) ==
    IF \E i \in DOMAIN d : ExactRowMatches(pd, d[i])
    THEN LET i == CHOOSE i \in DOMAIN d :
                      /\ ExactRowMatches(pd, d[i])
                      /\ \A j \in 1..(i - 1) : ~ExactRowMatches(pd, d[j])
         IN MatchOf(d[i], "exact_structured") @@ [confidence |-> ConfUnit]
    ELSE NoMatch

TileKeywordFields == <<"description", "original_title">>

TileSearchTerms(pd) ==
    Flatten([i \in DOMAIN TileKeywordFields |->
                IF TileKeywordFields[i] \in DOMAIN pd /\ pd[TileKeywordFields[i]] # ""
                THEN Split(Upper(pd[TileKeywordFields[i]])) ELSE <<>>])

\* the score of lines 163-165, also that of CategoryClassifier (lines 67-69)
SubstringScore(search_terms, categoria) ==
    SumSeq([t \in DOMAIN search_terms |->
                IF Contains(search_terms[t], categoria) THEN Len(search_terms[t]) ELSE 0])

TileKeywordScores(d, pd) ==
    LET search_terms == TileSearchTerms(pd)
    IN [i \in DOMAIN d |-> SubstringScore(search_terms, Upper(Strip(d[i].Categoria)))]

\* min(score / 30, 1.0)
TileKeywordConfidence(score) == Min(10 * score, ConfUnit)

\* confidence > 0.2
TileKeywordAccepts(confidence) == confidence > 60

\* lines 150-180
TileKeywordMatch(d, pd) ==
    LET best == BestOf(TileKeywordScores(d, pd))
        confidence == TileKeywordConfidence(best.score)
    IN IF best.index # 0 /\ TileKeywordAccepts(confidence)
       THEN MatchOf(d[best.index], "keyword") @@ [confidence |-> confidence, score |-> best.score]
       ELSE NoMatch

\* the keyword strategy tried before the tile pre-pass
TileFindCategoryMatch_KeywordFirst(d, pd) ==
    LET structured == HasStructuredData(pd)
        exact == IF structured THEN TileExactMatch(d, pd) ELSE NoMatch
        first == IF structured THEN <<"exact_structured">> ELSE <<>>
        tile == ClassifyTileProducts(d, pd)
        keyword == TileKeywordMatch(d, pd)
    IN IF exact # NoMatch THEN [result |-> exact, tried |-> first]
       ELSE IF keyword # NoMatch THEN [result |-> keyword, tried |-> first \o <<"keyword">>]
       ELSE [result |-> tile, tried |-> first \o <<"keyword", "tile_pattern">>]

\* TileFixedCategoryClassifier.find_category_match
TileFindCategoryMatch(d, pd) ==
    LET structured == HasStructuredData(pd)
        exact == IF structured THEN TileExactMatch(d, pd) ELSE NoMatch
        first == IF structured THEN <<"exact_structured">> ELSE <<>>
        tile == ClassifyTileProducts(d, pd)
        keyword == TileKeywordMatch(d, pd)
    IN IF exact # NoMatch THEN [result |-> exact, tried |-> first]
       ELSE IF tile # NoMatch THEN [result |-> tile, tried |-> first \o <<"tile_pattern">>]
       ELSE [result |-> keyword, tried |-> first \o <<"tile_pattern", "keyword">>]

(***************************************************************************)
(* CategoryClassifier                                                      *)
(***************************************************************************)
\* lines 33-41
PlainSearchTerms(pd) ==
    (IF "departamento" \in DOMAIN pd THEN <<Upper(pd.departamento)>> ELSE <<>>)
    \o (IF "familia" \in DOMAIN pd THEN <<Upper(pd.familia)>> ELSE <<>>)
    \o (IF "categoria" \in DOMAIN pd THEN <<Upper(pd.categoria)>> ELSE <<>>)
    \o (IF "description" \in DOMAIN pd THEN Split(Upper(pd.description)) ELSE <<>>)

\* lines 44-56: the exact match carries no confidence
PlainExactMatch(d, pd) ==
    IF \E i \in DOMAIN d : ExactRowMatches(pd, d[i])
    THEN LET i == CHOOSE i \in DOMAIN d :
                      /\ ExactRowMatches(pd, d[i])
                      /\ \A j \in 1..(i - 1) : ~ExactRowMatches(pd, d[j])
         IN MatchOf(d[i], "exact")
    ELSE NoMatch

PlainScores(d, pd) ==
    LET search_terms == PlainSearchTerms(pd)
    IN [i \in DOMAIN d |-> SubstringScore(search_terms, Upper(Strip(d[i].Categoria)))]

\* lines 58-83: the best row is returned whatever its score, without confidence
PlainPartialMatch(d, pd) ==
    LET best == BestOf(PlainScores(d, pd))
    IN IF best.index # 0
       THEN MatchOf(d[best.index], "partial") @@ [score |-> best.score]
       ELSE NoMatch

\* CategoryClassifier.find_category_match
PlainFindCategoryMatch(d, pd) ==
    LET exact == PlainExactMatch(d, pd)
    IN IF exact # NoMatch THEN [result |-> exact, tried |-> <<"exact">>]
       ELSE [result |-> PlainPartialMatch(d, pd), tried |-> <<"exact", "partial">>]

(***************************************************************************)
(* The state machine                                                       *)
(***************************************************************************)
\* no pipeline runs, no concurrent calls are in progress, the default formatter
DefaultMaxLength == 36
NoData == [none |-> "None"]
NoRun ==
    /\ pipeline = "none"
    /\ stage = "idle"
    /\ item = NoData
    /\ invoked = <<>>
    /\ enhanced_product_data = NoData
    /\ formatter = [max_length |-> DefaultMaxLength]
    /\ calls = <<>>
    /\ source = NoData

\* the classifiers are constructed on one taxonomy source
Init ==
    /\ df \in Taxonomies
    /\ \E seed \in 0..MaxSeed : category_keywords = BuildCategoryKeywords(df, seed)
    /\ pc = "idle"
    /\ classifier = "none"
    /\ product_data = <<>>
    /\ result = NoMatch
    /\ tried = <<>>
    /\ remembered = <<>>
    /\ NoRun

\* a caller runs ImprovedCategoryClassifier.find_category_match(pd)
ImprovedCall(pd) ==
    /\ pc = "idle"
    /\ LET r == ImprovedFindCategoryMatch(df, category_keywords, pd)
       IN /\ result' = r.result
          /\ tried' = r.tried
    /\ classifier' = "improved"
    /\ product_data' = pd
    /\ pc' = "returned"
    /\ UNCHANGED <<df, category_keywords, remembered>>
    /\ UNCHANGED others

\* a caller runs TileFixedCategoryClassifier.find_category_match(pd)
TileCall(pd) ==
    /\ pc = "idle"
    /\ LET r == TileFindCategoryMatch(df, pd)
       IN /\ result' = r.result
          /\ tried' = r.tried
    /\ classifier' = "tile"
    /\ product_data' = pd
    /\ pc' = "returned"
    /\ UNCHANGED <<df, category_keywords, remembered>>
    /\ UNCHANGED others

\* a caller runs CategoryClassifier.find_category_match(pd)
PlainCall(pd) ==
    /\ pc = "idle"
    /\ LET r == PlainFindCategoryMatch(df, pd)
       IN /\ result' = r.result
          /\ tried' = r.tried
    /\ classifier' = "plain"
    /\ product_data' = pd
    /\ pc' = "returned"
    /\ UNCHANGED <<df, category_keywords, remembered>>
    /\ UNCHANGED others

\* the caller has consumed the match and drops it with the descriptor before
\* its next item
NextItem ==
    /\ pc = "returned"
    /\ pc' = "idle"
    /\ classifier' = "none"
    /\ product_data' = <<>>
    /\ result' = NoMatch
    /\ tried' = <<>>
    /\ UNCHANGED <<df, category_keywords, remembered>>
    /\ UNCHANGED others

Next ==
    \/ \E pd \in Descriptors : ImprovedCall(pd)
    \/ \E pd \in Descriptors : TileCall(pd)
    \/ \E pd \in Descriptors : PlainCall(pd)
    \/ NextItem

Spec == Init /\ [][Next]_vars

(***************************************************************************)
(* Repeated calls: an observer keeps one call and its result while other   *)
(* calls go by, and the classifier may be constructed anew on the same     *)
(* source in a process with another hash seed.                             *)
(***************************************************************************)
ScrewAnalysis ==
    [producto_tipo |-> "tornillo autorroscante con punta de broca",
     construction_analysis |-> [detected_terms |-> {"TOR", "BROCA"}]]

RepeatDescriptors ==
    { NoHints @@ ScrewTitle @@ NoAnalysis,
      NoHints @@ OtherTitle @@ NoAnalysis,
      NoHints @@ ScrewTitle @@ ScrewAnalysis }

\* the observer keeps the call that has just returned
Remember ==
    /\ pc = "returned"
    /\ remembered' = [classifier |-> classifier, product_data |-> product_data,
                      result |-> result, category_keywords |-> category_keywords]
    /\ UNCHANGED <<df, category_keywords, pc, classifier, product_data, result, tried>>
    /\ UNCHANGED others

\* ImprovedCategoryClassifier.__init__ on the same source, lines 16-20
Reload ==
    /\ pc = "idle"
    /\ \E seed \in 0..MaxSeed : category_keywords' = BuildCategoryKeywords(df, seed)
    /\ UNCHANGED <<df, pc, classifier, product_data, result, tried, remembered>>
    /\ UNCHANGED others

NextRepeat ==
    \/ \E pd \in RepeatDescriptors : ImprovedCall(pd)
    \/ NextItem
    \/ Remember
    \/ Reload

SpecRepeat == Init /\ [][NextRepeat]_vars

(***************************************************************************)
(* Python re operations.  A pattern is a sequence of tokens; the patterns  *)
(* of this program put after every greedy token a token that cannot match  *)
(* what the greedy one consumed, so matching never has to backtrack.       *)
(***************************************************************************)
LowerTable ==
    [c \in { CharAt(UpperLetters, i) : i \in 1..Len(UpperLetters) } |->
        CharAt(LowerLetters, CHOOSE i \in 1..Len(UpperLetters) : CharAt(UpperLetters, i) = c)]

LowChar(c) == IF c \in DOMAIN LowerTable THEN LowerTable[c] ELSE c

RECURSIVE Lower(_)
\* str.lower(): character by character, half by half
Lower(s) ==
    IF Len(s) = 0 THEN ""
    ELSE IF Len(s) = 1 THEN LowChar(s)
    ELSE Lower(SubSeq(s, 1, Len(s) \div 2)) \o Lower(SubSeq(s, Len(s) \div 2 + 1, Len(s)))

IsUpperChar(c) == c \in DOMAIN LowerTable
IsLowerChar(c) == c \in DOMAIN UpperTable
IsAlphaChar(c) == IsUpperChar(c) \/ IsLowerChar(c)

\* str.isalpha()
IsAlpha(s) == Len(s) > 0 /\ \A i \in 1..Len(s) : IsAlphaChar(CharAt(s, i))

RECURSIVE TitleRange(_, _, _)
\* the characters lo..hi of s.title(): a letter behind a letter is lowered,
\* any other letter is raised
TitleRange(s, lo, hi) ==
    IF lo > hi THEN ""
    ELSE IF lo = hi
    THEN (IF lo > 1 /\ IsAlphaChar(CharAt(s, lo - 1)) THEN LowChar(CharAt(s, lo))
          ELSE UpChar(CharAt(s, lo)))
    ELSE TitleRange(s, lo, (lo + hi) \div 2) \o TitleRange(s, (lo + hi) \div 2 + 1, hi)

\* str.title()
Title(s) == TitleRange(s, 1, Len(s))

\* \w
IsWordChar(c) == IsAlphaChar(c) \/ IsDigit(c) \/ c = "_"

\* the character of s at position k, "" beyond its end
At(s, k) == IF k >= 1 /\ k <= Len(s) THEN CharAt(s, k) ELSE ""

RECURSIVE SpacesFrom(_, _)
\* how many blanks s holds from position k on
SpacesFrom(s, k) == IF IsSpace(At(s, k)) THEN 1 + SpacesFrom(s, k + 1) ELSE 0

Quotes == {"\"", "'"}

\* tokens:  \d+   \s*   one optional character   one character of a class
\*          one of several literals, the first that matches
TDigits == [kind |-> "digits", chars |-> {}, texts |-> <<>>]
TSpaces == [kind |-> "spaces", chars |-> {}, texts |-> <<>>]
TOpt(chars) == [kind |-> "opt", chars |-> chars, texts |-> <<>>]
TClass(chars) == [kind |-> "class", chars |-> chars, texts |-> <<>>]
TAlt(texts) == [kind |-> "alt", chars |-> {}, texts |-> texts]

\* re.IGNORECASE folds both sides
Fold(s, ignore_case) == IF ignore_case THEN Upper(s) ELSE s

LiteralAt(text, s, k, ignore_case) ==
    /\ k + Len(text) - 1 <= Len(s)
    /\ Fold(SubSeq(s, k, k + Len(text) - 1), ignore_case) = Fold(text, ignore_case)

\* where the token stops when it starts at k: 0 if it does not match
TokenEnd(tok, s, k, ignore_case) ==
    CASE tok.kind = "digits" ->
            IF IsDigit(At(s, k)) THEN k + Len(DigitsFrom(s, k)) ELSE 0
      [] tok.kind = "spaces" -> k + SpacesFrom(s, k)
      [] tok.kind = "opt" -> IF At(s, k) \in tok.chars THEN k + 1 ELSE k
      [] tok.kind = "class" ->
            IF Fold(At(s, k), ignore_case) \in { Fold(c, ignore_case) : c \in tok.chars }
            THEN k + 1 ELSE 0
      [] tok.kind = "alt" ->
            IF \E i \in DOMAIN tok.texts : LiteralAt(tok.texts[i], s, k, ignore_case)
            THEN k + Len(tok.texts[CHOOSE i \in DOMAIN tok.texts :
                            /\ LiteralAt(tok.texts[i], s, k, ignore_case)
                            /\ \A j \in 1..(i - 1) : ~LiteralAt(tok.texts[j], s, k, ignore_case)])
            ELSE 0

RECURSIVE MatchEnd(_, _, _, _)
\* where a match of the pattern that starts at k stops: 0 if there is none
MatchEnd(pattern, s, k, ignore_case) ==
    IF pattern = <<>> THEN k
    ELSE LET e == TokenEnd(Head(pattern), s, k, ignore_case)
         IN IF e = 0 THEN 0 ELSE MatchEnd(Tail(pattern), s, e, ignore_case)

NoGroup == [found |-> FALSE, start |-> 0, text |-> ""]

\* re.search(pattern, s): the leftmost match, its start and its group(0)
Search(pattern, s, ignore_case) ==
    LET starts == { k \in 1..Len(s) : MatchEnd(pattern, s, k, ignore_case) # 0 }
    IN IF starts = {} THEN NoGroup
       ELSE LET k == CHOOSE k \in starts : \A h \in starts : k <= h
            IN [found |-> TRUE, start |-> k,
                text |-> SubSeq(s, k, MatchEnd(pattern, s, k, ignore_case) - 1)]

\* re.search(rf'\b{word}\b', s, re.IGNORECASE) for a word of word characters
SearchWord(word, s) ==
    \E k \in 1..(Len(s) - Len(word) + 1) :
        /\ LiteralAt(word, s, k, TRUE)
        /\ ~IsWordChar(At(s, k - 1))
        /\ ~IsWordChar(At(s, k + Len(word)))

\* the first element of seq that satisfies Test, and whether there is one
FirstWhere(seq, Test(_)) ==
    IF \E i \in DOMAIN seq : Test(seq[i])
    THEN [found |-> TRUE,
          value |-> seq[CHOOSE i \in DOMAIN seq :
                            Test(seq[i]) /\ \A j \in 1..(i - 1) : ~Test(seq[j])]]
    ELSE [found |-> FALSE]

(***************************************************************************)
(* TitleParser and ImprovedTitleParser: the rule-based extraction          *)
(***************************************************************************)
X == TClass({"x"})
Q == TOpt(Quotes)

\* TitleParser.dimension_patterns, tried in this order under re.IGNORECASE
DimensionPatterns ==
    << <<TDigits, Q, TSpaces, X, TSpaces, TDigits, Q, TSpaces, X, TSpaces, TDigits, Q>>,
       <<TDigits, Q, TSpaces, X, TSpaces, TDigits, Q>>,
       <<TDigits, TSpaces, TAlt(<<"cm">>), TSpaces, X, TSpaces, TDigits, TSpaces, TAlt(<<"cm">>)>>,
       <<TDigits, TSpaces, TAlt(<<"mm">>), TSpaces, X, TSpaces, TDigits, TSpaces, TAlt(<<"mm">>)>> >>

\* ImprovedTitleParser.dimension_patterns, case-sensitive
XSign == TClass({"x", "X", "×"})

ImprovedDimensionPatterns ==
    << <<TDigits, XSign, TDigits>>,
       <<TDigits, TSpaces, XSign, TSpaces, TDigits>> >>

\* for pattern in patterns: match = re.search(...); if match: ...; break
SearchFirst(first, title, ignore_case) ==
    IF first.found THEN Search(first.value, title, ignore_case) ELSE NoGroup

FirstPatternMatch(patterns, title, ignore_case) ==
    LET Hit(p) == Search(p, title, ignore_case).found
    IN SearchFirst(FirstWhere(patterns, Hit), title, ignore_case)

\* a dict with the key when the value was found, without it otherwise
Field(key, found, value) == IF found THEN (key :> value) ELSE <<>>

\* field[key] = match.group(...) if there is a match
GroupField(key, match) == Field(key, match.found, match.text)

QuantityPattern == <<TDigits, TSpaces, TAlt(<<"pz", "pzs", "piezas", "unidades", "un">>)>>
ImprovedQuantityPattern == <<TDigits, TSpaces, TAlt(<<"pz", "pzs", "piezas", "unidades">>)>>
RValuePattern == <<TAlt(<<"R">>), TOpt({"-"}), TSpaces, TDigits>>

Colors == <<"blanco", "negro", "azul", "rojo", "verde", "gris", "amarillo", "naranja",
            "rosa", "cafÃ©", "marrÃ³n">>
ImprovedColors == <<"blanco", "negro", "azul", "rojo", "verde", "gris", "amarillo",
                    "naranja", "cafe">>

TitledField(key, first) == IF first.found THEN (key :> Title(first.value)) ELSE <<>>

\* the color whose first whole-word occurrence is leftmost in the title
ColorField_Leftmost(colors, title) ==
    LET Place(color) == CHOOSE k \in 1..Len(title) :
                            /\ LiteralAt(color, title, k, TRUE)
                            /\ ~IsWordChar(At(title, k - 1))
                            /\ ~IsWordChar(At(title, k + Len(color)))
        present == { i \in DOMAIN colors : SearchWord(colors[i], title) }
    IN IF present = {} THEN <<>>
       ELSE ("color" :> Title(colors[CHOOSE i \in present :
                                        \A j \in present : Place(colors[i]) <= Place(colors[j])]))

\* lines 67-72 (92-97): the first color of the list that the title holds as a word
ColorField(colors, title) ==
    LET In(color) == SearchWord(color, title)
    IN TitledField("color", FirstWhere(colors, In))

BrandStopWords == {"para", "con", "sin", "tipo", "marca"}

FoundField(key, first) == IF first.found THEN (key :> first.value) ELSE <<>>

\* words[:n]
FirstWords(words, n) == SubSeq(words, 1, Min(n, Len(words)))

\* the first of the first three words that is capitalized, alphabetic, longer
\* than two characters and no stop word
BrandField(title) ==
    LET IsBrand(word) ==
            /\ IsUpperChar(CharAt(word, 1))
            /\ IsAlpha(word)
            /\ Len(word) > 2
            /\ Lower(word) \notin BrandStopWords
    IN FoundField("potential_brand", FirstWhere(FirstWords(Split(title), 3), IsBrand))

\* TitleParser._rule_based_extraction
RuleBasedExtraction(title) ==
    [original_title |-> title, description |-> title]
        @@ GroupField("dimensions", FirstPatternMatch(DimensionPatterns, title, TRUE))
        @@ GroupField("quantity", Search(QuantityPattern, title, TRUE))
        @@ GroupField("r_value", Search(RValuePattern, title, TRUE))
        @@ ColorField(Colors, title)
        @@ BrandField(title)

ImprovedTilePatterns == <<"BAMBOO", "CAPRI", "CLAY">>

\* lines 97-101: the first tile pattern of the title names the product type
TileField(tile) ==
    IF tile.found
    THEN [tile_pattern |-> tile.value, producto_tipo |-> Lower(tile.value) \o " tile pattern"]
    ELSE <<>>

\* ImprovedTitleParser._rule_based_extraction
ImprovedRuleBasedExtraction(title) ==
    LET In(pattern) == Contains(Upper(pattern), Upper(title))
    IN [original_title |-> title, description |-> title]
        @@ GroupField("dimensions", FirstPatternMatch(ImprovedDimensionPatterns, title, FALSE))
        @@ GroupField("quantity", Search(ImprovedQuantityPattern, title, TRUE))
        @@ ColorField(ImprovedColors, title)
        @@ TileField(FirstWhere(ImprovedTilePatterns, In))

\* ImprovedTitleParser.parse_title_to_product_data: rules only, no service call
ImprovedParseTitleToProductData(raw_title) == ImprovedRuleBasedExtraction(raw_title)

(***************************************************************************)
(* ImprovedTitleParser: the construction vocabulary set up at construction *)
(***************************************************************************)
\* self.construction_vocab: token -> meaning
ConstructionVocab ==
    [CHAPA |-> "cerradura/manija de puerta", CERRADURA |-> "cerradura de puerta",
     MANIJA |-> "manija de puerta", PICAPORTE |-> "manija de puerta",
     TOR |-> "tornillo", TORNILLO |-> "tornillo", PERNO |-> "perno", TUERCA |-> "tuerca",
     ARANDELA |-> "arandela",
     BROCA |-> "broca para taladro", PUNTA |-> "punta de herramienta", MECHA |-> "broca",
     GRIFO |-> "grifería", LLAVE |-> "grifería o herramienta", VALVULA |-> "grifería",
     GALV |-> "galvanizado", INOX |-> "acero inoxidable", CROMO |-> "cromado",
     COBRE |-> "cobre",
     BAMBOO |-> "patrón bambú", CAPRI |-> "patrón capri", CLAY |-> "patrón clay",
     COCINA |-> "ubicación: cocina", JARDIN |-> "ubicación: jardín"]
        @@ ("BAÑO" :> "ubicación: baño")

(***************************************************************************)
(* Values Python code may meet and what a call makes of them               *)
(***************************************************************************)
\* Python's None where a str is expected: a value no input string equals
None == "<None>"

\* a call either returns a value or raises
Ok(v) == [raised |-> FALSE, value |-> v]
Raised(error) == [raised |-> TRUE, value |-> error]

\* truth value of a str-or-None field value
Truthy(v) == v # None /\ v # ""

RECURSIVE Join(_, _)
\* sep.join(parts)
Join(parts, sep) ==
    IF parts = <<>> THEN ""
    ELSE IF Len(parts) = 1 THEN Head(parts)
    ELSE Head(parts) \o sep \o Join(Tail(parts), sep)

(***************************************************************************)
(* The generative text service: chat.completions.create either raises or   *)
(* returns a message.  A response is kept as its content together with     *)
(* what json.loads makes of the content once the markdown fence is off.    *)
(***************************************************************************)
ServiceRaises == [kind |-> "raises"]
Text(content) ==
    [kind |-> "text", content |-> content, fenced |-> FALSE, json |-> [ok |-> FALSE]]
Json(content, data) ==
    [kind |-> "text", content |-> content, fenced |-> FALSE, json |-> [ok |-> TRUE, data |-> data]]
\* the same JSON text inside a markdown json fence
FencedJson(content, data) ==
    [kind |-> "text", content |-> content, fenced |-> TRUE, json |-> [ok |-> TRUE, data |-> data]]

\* the reply has content
HasContent(response) == response.kind = "text" /\ response.content # None

\* json.loads(content) succeeds: no fence may surround the JSON text
ParsesRaw(response) == HasContent(response) /\ response.json.ok /\ ~response.fenced

\* json.loads succeeds once a leading markdown fence is taken off
ParsesUnfenced(response) == HasContent(response) /\ response.json.ok

(***************************************************************************)
(* TitleParser: the service-backed enrichment of the extracted data        *)
(***************************************************************************)
\* TitleParser._ai_enhanced_parsing: the parsed reply overrides the rule data;
\* any failure falls back to the rule data
AiEnhancedParsing(rule_data, response) ==
    IF ParsesRaw(response)
    THEN response.json.data @@ rule_data
    ELSE rule_data

\* TitleParser.parse_title_to_product_data
ParseTitleToProductData(raw_title, response) ==
    AiEnhancedParsing(RuleBasedExtraction(raw_title), response)

(***************************************************************************)
(* TitleGenerator                                                          *)
(***************************************************************************)

\* the stripped content without double and single quotes, stripped again
CleanTitle(content) == Strip(Remove(Remove(Strip(content), "\""), "'"))

FallbackSpecKeys == <<"size", "dimensions", "color", "model">>

\* TitleGenerator._create_fallback_title: brand, category, key specs, joined;
\* join raises TypeError on a brand that is no str
CreateFallbackTitle(pd, category_info) ==
    LET brand == IF "brand" \in DOMAIN pd THEN <<pd.brand>> ELSE <<>>
        specs == Flatten([i \in DOMAIN FallbackSpecKeys |->
                    LET key == FallbackSpecKeys[i]
                    IN IF key \in DOMAIN pd /\ Truthy(pd[key]) THEN <<pd[key]>> ELSE <<>>])
    IN IF brand = <<None>> THEN Raised("TypeError")
       ELSE Ok(Join(brand \o <<Title(category_info.categoria)>> \o specs, " "))

CategoryInfoKeys == {"nomenclatura_sugerida", "ejemplo_aplicado", "categoria"}

\* TitleGenerator.generate_ecommerce_title: the prompt needs the three keys of
\* the category record; the reply is the title; a service failure or a reply
\* without content gives the fallback title
GenerateEcommerceTitle(pd, category_info, response) ==
    IF ~(CategoryInfoKeys \subseteq DOMAIN category_info) THEN Raised("KeyError")
    ELSE IF HasContent(response)
    THEN Ok(CleanTitle(response.content))
    ELSE CreateFallbackTitle(pd, category_info)

(***************************************************************************)
(* EnhancedTitleGenerator                                                  *)
(***************************************************************************)
ResearchFields == <<"producto_tipo", "description", "original_title">>

\* _enhance_with_web_research, lines 46-64: the copy, and the search query whose
\* join raises TypeError on a brand that is no str
SearchQueryRaises(pd) == "brand" \in DOMAIN pd /\ pd.brand = None

\* lines 108-114: what a parsed research reply adds to the copy
ResearchFindings(pd, research_data) ==
    [web_research |-> research_data,
     verified_brand |-> Get(research_data, "verified_brand", Get(pd, "brand", "")),
     verified_product_type |->
        Get(research_data, "verified_product_type", Get(pd, "producto_tipo", "")),
     seo_keywords |-> Get(research_data, "seo_keywords", <<>>),
     suggested_category |-> Get(research_data, "product_category", ""),
     is_construction_hardware |-> Get(research_data, "is_construction_hardware", FALSE)]

\* EnhancedTitleGenerator._enhance_with_web_research: returns the enhanced
\* copy; the caller's product_data is read only
EnhanceWithWebResearch(pd, response) ==
    IF SearchQueryRaises(pd) THEN Raised("TypeError")
    ELSE IF ParsesUnfenced(response)
    THEN Ok(ResearchFindings(pd, response.json.data) @@ pd)
    ELSE IF HasContent(response)
    THEN Ok([web_research |-> [error |-> "JSON parse failed",
                               raw_response |-> response.content]] @@ pd)
    ELSE Ok([web_research |-> [error |-> "service failed"]] @@ pd)

\* lines 136-141
ValidationResult(category_info, corrected_category) ==
    [original_category |-> category_info, corrected_category |-> corrected_category]

\* lines 209-213
CorrectedCategory(category_info, suggested_category, validation_data) ==
    [categoria |-> suggested_category,
     web_research_corrected |-> TRUE,
     original_categoria |-> Get(category_info, "categoria", None),
     correction_reason |-> Get(validation_data, "reasoning",
                               "Web research suggested different category")]
        @@ category_info

\* the validation reply asks for a correction, line 208
AsksCorrection(validation_data) ==
    /\ ~Get(validation_data, "category_makes_sense", TRUE)
    /\ Get(validation_data, "severity", None) \in {"medium", "high"}

\* does the validation step call the service at all, lines 144-153
ValidationCallsService(enhanced_data) ==
    LET web_research == Get(enhanced_data, "web_research", <<>>)
    IN /\ "error" \notin DOMAIN web_research
       /\ Get(web_research, "product_category", "") # ""

\* EnhancedTitleGenerator._validate_category_with_web_search: the key
\* corrected_category is always there, and holds NoMatch (None) unless the
\* reply asked for a correction
ValidateCategoryWithWebSearch(enhanced_data, category_info, response) ==
    IF /\ ValidationCallsService(enhanced_data)
       /\ ParsesUnfenced(response)
       /\ AsksCorrection(response.json.data)
    THEN ValidationResult(category_info,
            CorrectedCategory(category_info, enhanced_data.web_research.product_category,
                              response.json.data))
    ELSE ValidationResult(category_info, NoMatch)

\* line 38: category_validation.get('corrected_category', category_info), on a
\* dict that always has the key
FinalCategoryInfo(category_validation, category_info) ==
    Get(category_validation, "corrected_category", category_info)

\* re.sub of a leading number, its dot and the blanks after it
StripNumbering(title) ==
    LET e == MatchEnd(<<TDigits, TAlt(<<".">>), TSpaces>>, title, 1, FALSE)
    IN IF e = 0 THEN title ELSE SubSeq(title, e, Len(title))

\* re.sub of a leading hyphen or bullet and the blanks after it; the bullet
\* sign is no character of the titles drawn here
StripBullet(title) ==
    LET e == MatchEnd(<<TClass({"-"}), TSpaces>>, title, 1, FALSE)
    IN IF e = 0 THEN title ELSE SubSeq(title, e, Len(title))

EnhancedSpecKeys == <<"dimensions", "size", "color", "model", "material", "finish">>

\* a or b, on str-or-None values
Or(a, b) == IF Truthy(a) THEN a ELSE b

\* EnhancedTitleGenerator._create_enhanced_fallback_title
CreateEnhancedFallbackTitle(pd, category_info) ==
    LET brand == Or(Get(pd, "verified_brand", None), Get(pd, "brand", ""))
        product_type == Or(Or(Get(pd, "verified_product_type", None),
                              Get(pd, "producto_tipo", "")),
                           Get(category_info, "categoria", ""))
        named == (IF Truthy(brand) /\ Strip(brand) # "" THEN <<Strip(brand)>> ELSE <<>>)
                 \o (IF Truthy(product_type) /\ Strip(product_type) # ""
                     THEN <<Title(Strip(product_type))>> ELSE <<>>)
        specs == Flatten([i \in DOMAIN EnhancedSpecKeys |->
                    LET key == EnhancedSpecKeys[i]
                    IN IF key \in DOMAIN pd /\ Truthy(pd[key]) /\ Strip(pd[key]) # ""
                       THEN <<Strip(pd[key])>> ELSE <<>>])
        parts == named \o specs
        seo_keywords == Get(pd, "seo_keywords", <<>>)
        first_two == SubSeq(seo_keywords, 1, Min(2, Len(seo_keywords)))
        extra == IF seo_keywords # <<>> /\ Len(parts) < 4
                 THEN SelectSeq(first_two, LAMBDA kw : ~Contains(kw, Join(parts, " ")))
                 ELSE <<>>
        all == parts \o extra
        original_title == Get(pd, "original_title", "Product")
    IN IF all # <<>> THEN Ok(Join(all, " "))
       ELSE IF original_title = None THEN Raised("TypeError")
       ELSE Ok(original_title)

\* EnhancedTitleGenerator._generate_title_with_context: category_info.get on
\* None raises AttributeError before the service is asked
GenerateTitleWithContext(enhanced_data, category_info, response) ==
    IF category_info = NoMatch THEN Raised("AttributeError")
    ELSE IF HasContent(response)
    THEN Ok(StripBullet(StripNumbering(CleanTitle(response.content))))
    ELSE CreateEnhancedFallbackTitle(enhanced_data, category_info)

\* EnhancedTitleGenerator.generate_ecommerce_title with the replies of the
\* research, validation and title requests; returns the title and, for the
\* frame of the call, the copy it worked on
EnhancedGenerateEcommerceTitle(pd, category_info, research, validation, titling) ==
    LET enhanced == EnhanceWithWebResearch(pd, research)
    IN IF enhanced.raised THEN enhanced @@ [enhanced_data |-> pd]
       ELSE LET category_validation ==
                    ValidateCategoryWithWebSearch(enhanced.value, category_info, validation)
                final_category_info == FinalCategoryInfo(category_validation, category_info)
            IN GenerateTitleWithContext(enhanced.value, final_category_info, titling)
                @@ [enhanced_data |-> enhanced.value]

(***************************************************************************)
(* LabelFormatter                                                          *)
(***************************************************************************)
\* s[:n], also for a negative n
SliceTo(s, n) ==
    IF n >= 0 THEN SubSeq(s, 1, Min(n, Len(s)))
    ELSE IF Len(s) + n > 0 THEN SubSeq(s, 1, Len(s) + n) ELSE ""

\* s.rfind(' ') as a position from 1: 0 if there is no blank
LastSpace(s) ==
    LET at == { k \in 1..Len(s) : IsSpace(CharAt(s, k)) }
    IN IF at = {} THEN 0 ELSE CHOOSE k \in at : \A h \in at : h <= k

\* sub in s, for str and list alike
AnyIn(subs, s) == \E sub \in subs : Contains(sub, s)

\* LabelFormatter._clean_truncate: cut at the last blank of the first
\* max_length characters unless it is the first character; else cut hard and
\* append three dots
CleanTruncate(title, max_length) ==
    IF Len(title) <= max_length THEN title
    ELSE LET last_space == LastSpace(SliceTo(title, max_length))
         IN IF last_space > 1 THEN SubSeq(title, 1, last_space - 1)
            ELSE SliceTo(title, max_length - 3) \o "..."

\* the abbreviations dict, in its order
Abbreviations == <<
    <<"Fibra de Vidrio", "Fibra Vid">>, <<"Poliestireno", "Poliestir">>,
    <<"Aislamiento", "Aisl">>, <<"Térmico", "Term">>, <<"Accesorios", "Acc">>,
    <<"Dimensiones", "Dim">>, <<"Construcción", "Const">>, <<"Material", "Mat">>,
    <<"Resistencia", "Resist">>,
    <<"Blanco", "Blco">>, <<"Negro", "Neg">>, <<"Azul", "Az">>, <<"Rojo", "Rj">>,
    <<"Verde", "Vrd">>, <<"Amarillo", "Amar">>, <<"Naranja", "Nar">>, <<"Gris", "Gris">>,
    <<"Pulgadas", "in">>, <<"Centímetros", "cm">>, <<"Metros", "m">>,
    <<"Milímetros", "mm">>, <<"Piezas", "pz">>, <<"Unidades", "un">>,
    <<"Precio", "P">>, <<"Especial", "Esp">>, <<"Premium", "Prem">>,
    <<"Standard", "Std">>, <<"Professional", "Prof">> >>

\* the places from k on where word stands as a whole word
WordMatches(s, k, word) ==
    { p \in k..Len(s) : /\ LiteralAt(word, s, p, TRUE)
                        /\ ~IsWordChar(At(s, p - 1))
                        /\ ~IsWordChar(At(s, p + Len(word))) }

RECURSIVE SubWordFrom(_, _, _, _)
\* the leftmost match is replaced and the scan goes on behind it
SubWordFrom(s, k, word, abbrev) ==
    IF WordMatches(s, k, word) = {} THEN SubSeq(s, k, Len(s))
    ELSE CHOOSE replaced \in
             { SubSeq(s, k, p - 1) \o abbrev \o SubWordFrom(s, p + Len(word), word, abbrev) :
               p \in { q \in WordMatches(s, k, word) :
                         \A other \in WordMatches(s, k, word) : q <= other } } : TRUE

\* re.sub(rf'\b{re.escape(word)}\b', abbrev, s, flags=re.IGNORECASE)
SubWord(s, word, abbrev) == SubWordFrom(s, 1, word, abbrev)

\* one turn of the loop of lines 76-79
AbbreviateWith(s, i) == SubWord(s, Abbreviations[i][1], Abbreviations[i][2])

RECURSIVE AbbreviateRange(_, _, _)
\* the turns lo..hi of the loop, each working on the result of the last: the
\* first half of the turns, then the second half on what the first gave
AbbreviateRange(s, lo, hi) ==
    IF lo = hi THEN AbbreviateWith(s, lo)
    ELSE CHOOSE abbreviated \in
             { AbbreviateRange(first_half, (lo + hi) \div 2 + 1, hi) :
               first_half \in {AbbreviateRange(s, lo, (lo + hi) \div 2)} } : TRUE

\* LabelFormatter._smart_abbreviate
SmartAbbreviate(title) == AbbreviateRange(title, 1, Len(Abbreviations))

\* LabelFormatter._identify_product_type
IdentifyProductType(title) ==
    LET title_lower == Lower(title)
    IN IF AnyIn({"grapas", "accesorios", "acc"}, title_lower) THEN "accessory"
       ELSE IF AnyIn({"fibra", "aislam", "aisl"}, title_lower) THEN "insulation"
       ELSE IF AnyIn({"caseton", "poliestir"}, title_lower) THEN "panel"
       ELSE IF AnyIn({"foamular", "foam"}, title_lower) THEN "foam"
       ELSE "generic"

HasPieces(word) == Search(<<TDigits, TAlt(<<"pz">>)>>, word, FALSE).found
HasRValue(word_lower) == Search(<<TAlt(<<"r-">>), TDigits>>, word_lower, FALSE).found
Has3D(word) ==
    Search(<<TDigits, Q, TAlt(<<"x">>), TDigits, TAlt(<<"x">>), TDigits>>, word, FALSE).found
Has2D(word) == Search(<<TDigits, Q, TAlt(<<"x">>), TDigits>>, word, FALSE).found

LabelColors == {"blanco", "negro", "azul", "rojo", "verde", "gris", "amarillo",
                "blco", "neg", "az"}
GenericWords == {"con", "el", "la", "y", "térm", "term", "construcción", "const",
                 "decorativo", "alta", "calidad"}
FillerWords == {"premium", "especial", "profesional", "estándar", "standard", "térmicas", "-"}

Add(condition, points) == IF condition THEN points ELSE 0

\* lines 203-269 with the lower-cased word and the two searches at hand
WordImportance(word, word_lower, pieces, r_value, product_type, position, total_words) ==
    Add(product_type = "accessory" /\ AnyIn({"grapas", "accesorio", "acc"}, word_lower), 1000)
    + Add(product_type = "accessory" /\ pieces, 950)
    + Add(product_type = "accessory" /\ word_lower \in LabelColors, 900)
    + Add(product_type = "insulation" /\ AnyIn({"fibra", "aislam", "aisl"}, word_lower), 1000)
    + Add(product_type = "insulation" /\ r_value, 950)
    + Add(product_type = "panel" /\ AnyIn({"caseton", "poliestir"}, word_lower), 1000)
    + (IF Has3D(word) THEN 920 ELSE IF Has2D(word) THEN 900 ELSE 0)
    + Add(pieces /\ product_type # "accessory", 880)
    + Add(r_value /\ product_type # "insulation", 850)
    + Add(/\ IsUpperChar(CharAt(word, 1)) /\ Len(word) > 2 /\ IsAlpha(word)
          /\ 2 * position < total_words, 800)
    + Add(product_type # "accessory" /\ word_lower \in LabelColors, 700)
    + Add(AnyIn({"cm", "mm", "in", "\""}, word_lower), 650)
    + Add(word_lower \in {"para", "de"} /\ Len(word) <= 4, 200)
    + Add(word_lower \in GenericWords, 50)
    + Add(word_lower \in FillerWords \/ word = "-", 10)
    + Add(10 * position < 3 * total_words, 50)

\* LabelFormatter._calculate_word_importance
CalculateWordImportance(word, product_type, position, total_words) ==
    WordImportance(word, Lower(word), HasPieces(word), HasRValue(Lower(word)),
                   product_type, position, total_words)

\* word_scores: one entry per distinct word, in the order of first occurrence,
\* with the score of its last occurrence
WordScores(words, product_type) ==
    LET last(w) == CHOOSE i \in DOMAIN words :
                        words[i] = w /\ \A j \in DOMAIN words : words[j] = w => j <= i
        distinct == Dedupe(words)
    IN [k \in DOMAIN distinct |->
            [word |-> distinct[k],
             score |-> CalculateWordImportance(distinct[k], product_type,
                                               last(distinct[k]) - 1, Len(words))]]

RECURSIVE SortedByScore(_)
\* sorted(..., key=score, reverse=True): stable, the highest score first
SortedByScore(entries) ==
    IF entries = <<>> THEN <<>>
    ELSE LET i == CHOOSE i \in DOMAIN entries :
                    /\ \A j \in DOMAIN entries : entries[j].score <= entries[i].score
                    /\ \A j \in 1..(i - 1) : entries[j].score < entries[i].score
         IN <<entries[i]>>
            \o SortedByScore(SubSeq(entries, 1, i - 1) \o SubSeq(entries, i + 1, Len(entries)))

RECURSIVE SelectWords(_, _, _, _)
\* lines 106-119: take the words in score order while they fit
SelectWords(sorted_words, selected_words, current_length, max_length) ==
    IF sorted_words = <<>> THEN selected_words
    ELSE LET word == Head(sorted_words).word
             total_length == Len(word) + (IF selected_words # <<>> THEN 1 ELSE 0)
         IN IF current_length + total_length <= max_length
            THEN SelectWords(Tail(sorted_words), Append(selected_words, word),
                             current_length + total_length, max_length)
            ELSE SelectWords(Tail(sorted_words), selected_words, current_length, max_length)

LastOf(seq) == seq[Len(seq)]

\* lines 153-159: what a word of an accessory title is taken for
AccessoryPart(word) ==
    IF AnyIn({"grapas", "accesorio", "acc"}, Lower(word)) THEN "product_type"
    ELSE IF HasPieces(word) THEN "quantity"
    ELSE IF Lower(word) \in {"blanco", "negro", "azul", "rojo", "verde", "gris", "amarillo"}
    THEN "color"
    ELSE "other"

\* the last word taken for the part, "" (None) if there is none
LastPart(words, parts, part) ==
    IF \E i \in DOMAIN words : parts[i] = part
    THEN words[CHOOSE i \in DOMAIN words :
                    parts[i] = part /\ \A j \in DOMAIN words : parts[j] = part => j <= i]
    ELSE ""

\* lines 161-170
AccessoryParts(words, parts) ==
    SelectSeq(<<LastPart(words, parts, "product_type"), LastPart(words, parts, "quantity"),
                LastPart(words, parts, "color")>>,
              LAMBDA part : part # "")

\* lines 172-178: abbreviate, then drop ' para Aislante', while too long
ShortenAccessory(joined, shorter, max_length) ==
    IF Len(joined) <= max_length THEN joined
    ELSE IF Len(shorter) <= max_length THEN shorter
    ELSE Remove(shorter, " para Aislante")

\* line 180
FitOrCut(shortest, max_length) ==
    IF Len(shortest) <= max_length THEN shortest
    ELSE SliceTo(shortest, max_length - 3) \o "..."

\* the joined parts; Accesorios can only be in them within the product type
AccessoryFormat(joined, max_length) ==
    FitOrCut(ShortenAccessory(joined, Replace(joined, "Accesorios", "Acc"), max_length),
             max_length)

AccessoryWords(words) == AccessoryParts(words, [i \in DOMAIN words |-> AccessoryPart(words[i])])

\* LabelFormatter._force_accessory_format
ForceAccessoryFormat(title, max_length) ==
    AccessoryFormat(Join(AccessoryWords(Split(title)), " "), max_length)

Connectors == {"y", "de", "para", "-"}

\* line 122: the selected words in the order of the title, each as often as
\* the title has it
Reselect(words, selected_words) ==
    SelectSeq(words, LAMBDA word : word \in Range(selected_words))

\* lines 125-126: one trailing connector is dropped
DropTrailingConnector(result_words) ==
    IF result_words # <<>> /\ Lower(LastOf(result_words)) \in Connectors
    THEN SubSeq(result_words, 1, Len(result_words) - 1) ELSE result_words

\* lines 86-126
ImportantWords(words, product_type, max_length) ==
    DropTrailingConnector(
        Reselect(words, SelectWords(SortedByScore(WordScores(words, product_type)),
                                    <<>>, 0, max_length)))

\* lines 128-142: a Grapas accessory must keep its piece count
JoinOrForce(title, max_length, product_type, result_words) ==
    IF /\ product_type = "accessory"
       /\ Contains("Grapas", title)
       /\ ~\E i \in DOMAIN result_words : HasPieces(result_words[i])
    THEN ForceAccessoryFormat(title, max_length)
    ELSE Join(result_words, " ")

\* LabelFormatter._keep_important_words
KeepImportantWords(title, max_length) ==
    CHOOSE kept \in
        { JoinOrForce(title, max_length, product_type,
                      ImportantWords(Split(title), product_type, max_length)) :
          product_type \in {IdentifyProductType(title)} } : TRUE

FormatStrategies == <<"as is", "abbreviated", "important words", "truncated">>

\* lines 20-34 with the results of the strategies at hand
LabelOf(full_title, max_length, abbreviated, important) ==
    IF Len(full_title) <= max_length THEN [label |-> full_title, by |-> "as is"]
    ELSE IF Len(abbreviated) <= max_length THEN [label |-> abbreviated, by |-> "abbreviated"]
    ELSE IF Len(important) <= max_length THEN [label |-> important, by |-> "important words"]
    ELSE [label |-> CleanTruncate(full_title, max_length), by |-> "truncated"]

\* LabelFormatter.format_store_label and the strategy that gave the label
FormatStoreLabelBy(full_title, max_length) ==
    LabelOf(full_title, max_length, SmartAbbreviate(full_title),
            KeepImportantWords(full_title, max_length))

FormatStoreLabel(full_title, max_length) == FormatStoreLabelBy(full_title, max_length).label

(***************************************************************************)
(* The pipelines: UpdatedCompletePipeline and CompletePipeline take a raw  *)
(* title through parser, classifier, generator and formatter;              *)
(* ProductTitlePipeline takes a descriptor through the last three.         *)
(***************************************************************************)
Updated == "UpdatedCompletePipeline"
Complete == "CompletePipeline"
Product == "ProductTitlePipeline"
Pipelines == {Updated, Complete, Product}

\* the agents in the order of the pipeline
Stages == <<"Extractor", "Resolver", "Synthesis", "Formatter">>

\* the taxonomies the pipelines are constructed on
PipelineTaxonomies == { <<>>, <<RowPool[1], RowPool[3]>>, <<RowPool[6], RowPool[7]>> }

\* raw titles handed to process_raw_title
PipelineTitles == {"TOR PUNTA DE BROCA", "XYZ", "piso 15x93x3.5 gris", "60x60"}

\* descriptors handed to process_product
Products == { [brand |-> "Truper", description |-> "brocas", size |-> "8mm"],
              [description |-> "XYZ"] }

\* replies of the service to the parser's request
ExtractReplies ==
    { ServiceRaises,
      Text("no json"),
      Json("keywords", [producto_tipo |-> "broca", categoria_keywords |-> <<"BROCA">>]),
      Json("null brand", [brand |-> None, categoria_keywords |-> <<"broca">>]),
      Json("null hint", [departamento |-> None]) }

\* replies to the title request
TitleReplies == { ServiceRaises, Text("\"Broca Truper 8mm\""), Text(""), Text(None) }

\* replies to the research request and to the validation request
ResearchReplies ==
    { ServiceRaises, FencedJson("research", [product_category |-> "Tornillos"]),
      Json("no category", [verified_brand |-> "Truper"]) }
ValidationReplies ==
    { ServiceRaises,
      Json("fits", [category_makes_sense |-> TRUE]),
      Json("does not fit", [category_makes_sense |-> FALSE, severity |-> "high"]),
      Json("fits loosely", [category_makes_sense |-> FALSE, severity |-> "low"]) }

\* the result dict at the start of process_raw_title / process_product
InitialResult(p, input) ==
    IF p = Product
    THEN [input |-> input, category_match |-> NoMatch, full_title |-> None,
          store_label |-> None, success |-> FALSE, errors |-> <<>>]
    ELSE [input_title |-> input, parsed_data |-> NoData, category_match |-> NoMatch,
          optimized_title |-> None, store_label |-> None, success |-> FALSE,
          errors |-> <<>>]

\* the exception swallowed without an entry
PipelineError_Unrecorded(i, error) == i

\* the except clause of the pipelines
PipelineError(i, error) == [i EXCEPT !.errors = Append(@, "Pipeline error: " \o error)]

NoCategoryError(p) ==
    IF p = Updated THEN "No category match found even with improved parsing"
    ELSE "No category match found"

NoTitleError(p) ==
    IF p = Product THEN "Failed to generate title" ELSE "Failed to generate optimized title"

\* CompletePipeline._fuzzy_category_search, lines 91-98
FuzzyKeywords(parsed_data) ==
    LET given == Get(parsed_data, "categoria_keywords", <<>>)
        description == Split(Get(parsed_data, "description", ""))
    IN IF given # <<>> THEN given
       ELSE Split(Get(parsed_data, "producto_tipo", ""))
            \o SubSeq(description, 1, Min(5, Len(description)))

\* split() on a null producto_tipo or description
FuzzyRaises(parsed_data) ==
    /\ Get(parsed_data, "categoria_keywords", <<>>) = <<>>
    /\ \E key \in {"producto_tipo", "description"} :
            key \in DOMAIN parsed_data /\ parsed_data[key] = None

\* CompletePipeline._fuzzy_category_search: the keywords are looked up in the
\* upper-cased Categoria of each row, which is not stripped here
FuzzyCategorySearch(d, parsed_data) ==
    LET keywords == FuzzyKeywords(parsed_data)
        upper == [k \in DOMAIN keywords |-> Upper(keywords[k])]
        scores == [i \in DOMAIN d |-> SubstringScore(upper, Upper(d[i].Categoria))]
        best == BestOf(scores)
    IN IF FuzzyRaises(parsed_data) THEN Raised("AttributeError")
       ELSE IF best.index # 0
       THEN Ok(MatchOf(d[best.index], "fuzzy_keyword") @@ [score |-> best.score])
       ELSE Ok(NoMatch)

\* CategoryClassifier.find_category_match, lines 33-49: upper() on a null hint
\* or description
PlainRaises(pd) ==
    \E key \in {"departamento", "familia", "categoria", "description"} :
        key \in DOMAIN pd /\ pd[key] = None

\* self.classifier.find_category_match(parsed_data) of pipeline p
ResolverCall(p, d, keywords, pd) ==
    IF p = Updated THEN Ok(ImprovedFindCategoryMatch(d, keywords, pd).result)
    ELSE IF PlainRaises(pd) THEN Raised("AttributeError")
    ELSE Ok(PlainFindCategoryMatch(d, pd).result)

\* the category the pipeline goes on with: CompletePipeline looks the keywords
\* up itself when its classifier returned None (lines 52-54)
CategoryMatch(p, d, pd, match) ==
    IF p = Complete /\ match = NoMatch THEN FuzzyCategorySearch(d, pd) ELSE Ok(match)

\* where process_raw_title goes after the category step: it returns at once
\* without a category
AfterCategory_GoesOn(category_match) == "resolved"

AfterCategory(category_match) ==
    IF category_match = NoMatch THEN "returned" ELSE "resolved"

\* dict.copy(): the writes that follow go to another object than the dict copied
Copy_SameObject(object) == object

Copy(object) == "copy of " \o object

\* lines 65-69 of UpdatedCompletePipeline: what the generator is handed
EnhancedProductData(parsed_data, category_match) ==
    [category_info |-> category_match,
     construction_context |-> Get(parsed_data, "construction_analysis", <<>>)]
        @@ parsed_data

\* self.generator.generate_ecommerce_title of pipeline p with the replies of
\* the service: the title, or the error raised, and the dict the stage wrote
SynthesisCall(p, pd, category_match, research, validation, titling) ==
    IF p = Updated
    THEN LET enhanced_data == EnhancedProductData(pd, category_match)
         IN GenerateEcommerceTitle(enhanced_data, category_match, titling)
                @@ [enhanced_data |-> enhanced_data]
    ELSE IF p = Complete
    THEN EnhancedGenerateEcommerceTitle(pd, category_match, research, validation, titling)
    ELSE GenerateEcommerceTitle(pd, category_match, titling) @@ [enhanced_data |-> NoData]

\* the title field of the result dict
TitleOf(p, i) == IF p = Product THEN i.full_title ELSE i.optimized_title
WithTitle(p, i, title) ==
    IF p = Product THEN [i EXCEPT !.full_title = title]
    ELSE [i EXCEPT !.optimized_title = title]

\* the pipeline is constructed: its classifier loads the taxonomy, its
\* formatter has the default budget
InitPipeline ==
    /\ df \in PipelineTaxonomies
    /\ \E seed \in 0..MaxSeed : category_keywords = BuildCategoryKeywords(df, seed)
    /\ pc = "idle"
    /\ classifier = "none"
    /\ product_data = <<>>
    /\ result = NoMatch
    /\ tried = <<>>
    /\ remembered = <<>>
    /\ NoRun

\* process_raw_title(raw_title) or process_product(product_data) is entered
Start(p, input) ==
    /\ stage = "idle"
    /\ pipeline' = p
    /\ item' = InitialResult(p, input)
    /\ product_data' = IF p = Product THEN input ELSE <<>>
    /\ stage' = IF p = Product THEN "parsed" ELSE "started"
    /\ UNCHANGED <<df, category_keywords, pc, classifier, result, tried, remembered,
                   invoked, enhanced_product_data, formatter, calls, source>>

\* step 1: self.parser.parse_title_to_product_data(raw_title)
Extract(response) ==
    /\ stage = "started"
    /\ \E parsed_data \in { IF pipeline = Updated
                             THEN ImprovedParseTitleToProductData(item.input_title)
                             ELSE ParseTitleToProductData(item.input_title, response) } :
          /\ product_data' = parsed_data
          /\ item' = [item EXCEPT !.parsed_data = parsed_data]
    /\ invoked' = Append(invoked, "Extractor")
    /\ stage' = "parsed"
    /\ UNCHANGED <<df, category_keywords, pc, classifier, result, tried, remembered,
                   pipeline, enhanced_product_data, formatter, calls, source>>

\* step 2: self.classifier.find_category_match(parsed_data), in
\* CompletePipeline followed by its keyword search after a None
Resolve ==
    /\ stage = "parsed"
    /\ invoked' = Append(invoked, "Resolver")
    /\ classifier' = IF pipeline = Updated THEN "improved" ELSE "plain"
    /\ \E call \in {ResolverCall(pipeline, df, category_keywords, product_data)} :
       \E category_match \in { IF call.raised THEN call
                                ELSE CategoryMatch(pipeline, df, product_data, call.value) } :
          /\ result' = IF call.raised THEN NoMatch ELSE call.value
          /\ IF category_match.raised
             THEN /\ item' = PipelineError(item, category_match.value)
                  /\ stage' = "returned"
             ELSE IF category_match.value = NoMatch
             THEN /\ item' = [item EXCEPT !.errors = Append(@, NoCategoryError(pipeline))]
                  /\ stage' = AfterCategory(category_match.value)
             ELSE /\ item' = [item EXCEPT !.category_match = category_match.value]
                  /\ stage' = AfterCategory(category_match.value)
    /\ UNCHANGED <<df, category_keywords, pc, product_data, tried, remembered,
                   pipeline, enhanced_product_data, formatter, calls, source>>

\* step 3: self.generator.generate_ecommerce_title; what the stage writes goes
\* to the copy of the parsed data
Synthesize(research, validation, titling) ==
    /\ stage = "resolved"
    /\ invoked' = Append(invoked, "Synthesis")
    /\ \E call \in {SynthesisCall(pipeline, product_data, item.category_match,
                                   research, validation, titling)},
          target \in {Copy("parsed_data")} :
          /\ enhanced_product_data' = call.enhanced_data
          /\ product_data' = IF pipeline # Product /\ target = "parsed_data"
                             THEN call.enhanced_data ELSE product_data
          /\ IF call.raised
             THEN /\ item' = PipelineError(item, call.value)
                  /\ stage' = "returned"
             ELSE IF call.value = ""
             THEN /\ item' = [item EXCEPT !.errors = Append(@, NoTitleError(pipeline))]
                  /\ stage' = "returned"
             ELSE /\ item' = WithTitle(pipeline, item, call.value)
                  /\ stage' = "synthesized"
    /\ UNCHANGED <<df, category_keywords, pc, classifier, result, tried, remembered,
                   pipeline, formatter, calls, source>>

\* step 4: self.formatter.format_store_label(optimized_title)
Format ==
    /\ stage = "synthesized"
    /\ invoked' = Append(invoked, "Formatter")
    /\ item' = [item EXCEPT
                    !.store_label = FormatStoreLabel(TitleOf(pipeline, item),
                                                     formatter.max_length),
                    !.success = TRUE]
    /\ stage' = "returned"
    /\ UNCHANGED <<resolver_vars, pipeline, enhanced_product_data, formatter, calls, source>>

\* process_title_list / process_batch keeps the result and takes the next item
NextTitle ==
    /\ stage = "returned"
    /\ pipeline' = "none"
    /\ stage' = "idle"
    /\ item' = NoData
    /\ invoked' = <<>>
    /\ enhanced_product_data' = NoData
    /\ product_data' = <<>>
    /\ result' = NoMatch
    /\ classifier' = "none"
    /\ UNCHANGED <<df, category_keywords, pc, tried, remembered, formatter, calls, source>>

NextPipeline ==
    \/ \E p \in {Updated, Complete}, raw_title \in PipelineTitles : Start(p, raw_title)
    \/ \E product \in Products : Start(Product, product)
    \/ \E response \in ExtractReplies : Extract(response)
    \/ Resolve
    \/ \E research \in ResearchReplies, validation \in ValidationReplies,
          titling \in TitleReplies : Synthesize(research, validation, titling)
    \/ Format
    \/ NextTitle

SpecPipeline == InitPipeline /\ [][NextPipeline]_vars

(***************************************************************************)
(* Concurrent calls: threads share one loaded ImprovedCategoryClassifier   *)
(* and run find_category_match each on its own descriptor; a call takes    *)
(* one strategy of the cascade per step, so calls interleave between       *)
(* strategies.                                                             *)
(***************************************************************************)
MaxThreads == 2
Threads == 1..MaxThreads

ConcurrentTaxonomies == { <<RowPool[1], RowPool[3]>>, <<RowPool[4], RowPool[2]>> }

ConcurrentDescriptors ==
    { NoHints @@ ScrewTitle @@ NoAnalysis,
      NoHints @@ ScrewTitle @@ ScrewAnalysis,
      NoHints @@ OtherTitle @@ NoAnalysis,
      [departamento |-> "herramientas", familia |-> "accesorios", categoria |-> "brocas"]
        @@ OtherTitle }

\* the frame of a call: its argument, the strategy it tries next (0: no call,
\* Len(ImprovedCascade) + 1: returned), and what it has tried and found
NoCall == [at |-> 0, product_data |-> <<>>, result |-> NoMatch, tried |-> <<>>]

ReturnedAt == Len(ImprovedCascade) + 1

\* the argument of the call of thread t: a local of its own frame
DescriptorOf_Shared(t) == calls[1].product_data

DescriptorOf(t) == calls[t].product_data

InitConcurrent ==
    /\ df \in ConcurrentTaxonomies
    /\ \E seed \in 0..MaxSeed : category_keywords = BuildCategoryKeywords(df, seed)
    /\ pc = "idle"
    /\ classifier = "improved"
    /\ product_data = <<>>
    /\ result = NoMatch
    /\ tried = <<>>
    /\ remembered = <<>>
    /\ pipeline = "none"
    /\ stage = "idle"
    /\ item = NoData
    /\ invoked = <<>>
    /\ enhanced_product_data = NoData
    /\ formatter = [max_length |-> DefaultMaxLength]
    /\ calls = [t \in Threads |-> NoCall]
    /\ source = NoData

\* thread t enters find_category_match(pd); the descriptors of the calls in
\* progress are distinct
Enter(t, pd) ==
    /\ calls[t].at = 0
    /\ \A u \in Threads : calls[u].at # 0 => calls[u].product_data # pd
    /\ calls' = [calls EXCEPT ![t] = [NoCall EXCEPT !.at = 1, !.product_data = pd]]
    /\ UNCHANGED <<resolver_vars, pipeline, stage, item, invoked, enhanced_product_data,
                   formatter, source>>

\* thread t tries the next strategy of the cascade (lines 70-88): a match ends
\* the call, and so does the last strategy
Try(t) ==
    /\ calls[t].at \in DOMAIN ImprovedCascade
    /\ \E name \in {ImprovedCascade[calls[t].at]} :
       \E match \in {ImprovedStrategy(name, df, category_keywords, DescriptorOf(t))} :
          calls' = [calls EXCEPT ![t] =
                        [@ EXCEPT !.result = match,
                                  !.tried = Append(@, name),
                                  !.at = IF match # NoMatch THEN ReturnedAt ELSE @ + 1]]
    /\ UNCHANGED <<resolver_vars, pipeline, stage, item, invoked, enhanced_product_data,
                   formatter, source>>

\* the caller of thread t has taken the result
Leave(t) ==
    /\ calls[t].at = ReturnedAt
    /\ calls' = [calls EXCEPT ![t] = NoCall]
    /\ UNCHANGED <<resolver_vars, pipeline, stage, item, invoked, enhanced_product_data,
                   formatter, source>>

NextConcurrent ==
    \/ \E t \in Threads, pd \in ConcurrentDescriptors : Enter(t, pd)
    \/ \E t \in Threads : Try(t)
    \/ \E t \in Threads : Leave(t)

SpecConcurrent == InitConcurrent /\ [][NextConcurrent]_vars

(***************************************************************************)
(* Descriptors with missing fields: a field is missing when its key is     *)
(* absent or its value is None.                                            *)
(***************************************************************************)
OptionalFields == <<"departamento", "familia", "categoria", "description", "original_title",
                    "producto_tipo", "palabras_clave_categoria", "construction_analysis">>

\* None in the place of a field: of a dict, of a list, of a str
NullOf(key) ==
    IF key = "construction_analysis" THEN NoData
    ELSE IF key = "palabras_clave_categoria" THEN <<None>>
    ELSE None

IsNull(pd, key) == key \in DOMAIN pd /\ pd[key] = NullOf(key)

\* the descriptor without its null fields
Present(pd) ==
    LET keys == { key \in DOMAIN pd : ~IsNull(pd, key) }
    IN [key \in keys |-> pd[key]]

\* a descriptor with all optional fields
FullDescriptor ==
    [departamento |-> "herramientas", familia |-> "accesorios", categoria |-> "brocas",
     description |-> "TOR PUNTA DE BROCA", original_title |-> "TOR PUNTA DE BROCA",
     producto_tipo |-> "tornillo autorroscante con punta de broca",
     palabras_clave_categoria |-> <<"mecha">>,
     construction_analysis |-> [detected_terms |-> {"TOR", "BROCA"}]]

\* each optional field present, absent or null
NullableDescriptors ==
    { [key \in (DOMAIN FullDescriptor) \ absent |->
            IF key \in null THEN NullOf(key) ELSE FullDescriptor[key]] :
        absent \in SUBSET Range(OptionalFields), null \in SUBSET Range(OptionalFields) }

NullableTaxonomies == { <<>>, <<RowPool[1], RowPool[3]>> }

\* lines 94-96: upper() on a null hint, reached on the first row whose earlier
\* fields compare equal
ExactRaises(d, pd) ==
    \E i \in DOMAIN d :
        \/ IsNull(pd, "departamento")
        \/ /\ Upper(Get(pd, "departamento", "")) = Upper(d[i].Departamento)
           /\ \/ IsNull(pd, "familia")
              \/ /\ Upper(Get(pd, "familia", "")) = Upper(d[i].Familia)
                 /\ IsNull(pd, "categoria")

\* lines 113-117: upper() on a null producto_tipo once there is an analysis
ConstructionRaises(pd) ==
    /\ Get(pd, "construction_analysis", <<>>) # <<>>
    /\ IsNull(pd, "producto_tipo")

\* lines 177-178: the iteration over a null keyword list
KeywordRaises(pd) == IsNull(pd, "palabras_clave_categoria")

\* line 216: the concatenation of a null description or title
FuzzyMatchRaises(pd) == IsNull(pd, "description") \/ IsNull(pd, "original_title")

\* the error a strategy raises on the descriptor, None if it raises none
StrategyError(name, d, pd) ==
    CASE name = "exact" -> IF ExactRaises(d, pd) THEN "AttributeError" ELSE None
      [] name = "construction_aware" ->
            IF ConstructionRaises(pd) THEN "AttributeError" ELSE None
      [] name = "enhanced_keyword" -> IF KeywordRaises(pd) THEN "TypeError" ELSE None
      [] name = "fuzzy" -> IF FuzzyMatchRaises(pd) THEN "TypeError" ELSE None

RECURSIVE RunNullable(_, _, _, _)
\* find_category_match from the i-th strategy on, on a descriptor that may hold
\* null fields
RunNullable(i, d, ck, pd) ==
    IF i > Len(ImprovedCascade) THEN Ok(NoMatch)
    ELSE IF StrategyError(ImprovedCascade[i], d, pd) # None
    THEN Raised(StrategyError(ImprovedCascade[i], d, pd))
    ELSE IF ImprovedStrategy(ImprovedCascade[i], d, ck, Present(pd)) # NoMatch
    THEN Ok(ImprovedStrategy(ImprovedCascade[i], d, ck, Present(pd)))
    ELSE RunNullable(i + 1, d, ck, pd)

\* ImprovedCategoryClassifier.find_category_match on a descriptor that may hold
\* null fields; line 68 calls get() on the construction analysis
NullableFindCategoryMatch(d, ck, pd) ==
    IF IsNull(pd, "construction_analysis") THEN Raised("AttributeError")
    ELSE RunNullable(1, d, ck, pd)

InitNullable ==
    /\ df \in NullableTaxonomies
    /\ \E seed \in 0..MaxSeed : category_keywords = BuildCategoryKeywords(df, seed)
    /\ pc = "idle"
    /\ classifier = "improved"
    /\ product_data = <<>>
    /\ result = NoMatch
    /\ tried = <<>>
    /\ remembered = <<>>
    /\ NoRun

\* the outcome of the call as the caller sees it: a return value or an exception
Outcome(outcome) ==
    /\ pc' = IF outcome.raised THEN "raised" ELSE "returned"
    /\ result' = IF outcome.raised THEN NoMatch ELSE outcome.value

\* find_category_match(pd) on a descriptor whose optional fields may be missing
NullableCall(pd) ==
    /\ pc = "idle"
    /\ product_data' = pd
    /\ Outcome(NullableFindCategoryMatch(df, category_keywords, pd))
    /\ UNCHANGED <<df, category_keywords, classifier, tried, remembered>>
    /\ UNCHANGED others

\* the caller goes on to the next descriptor, after a return or an exception
NullableNext ==
    /\ pc \in {"returned", "raised"}
    /\ pc' = "idle"
    /\ product_data' = <<>>
    /\ result' = NoMatch
    /\ UNCHANGED <<df, category_keywords, classifier, tried, remembered>>
    /\ UNCHANGED others

NextNullable ==
    \/ \E pd \in NullableDescriptors : NullableCall(pd)
    \/ NullableNext

SpecNullable == InitNullable /\ [][NextNullable]_vars

(***************************************************************************)
(* The formatter on its own: LabelFormatter(max_length) and calls of       *)
(* format_store_label, as in test_formatter.                               *)
(***************************************************************************)
\* the budgets a formatter is constructed with
LabelBudgets == {1, 2, 3, 12, 20, DefaultMaxLength}

\* the titles of test_formatter, and shorter ones
LabelTitles ==
    {"Fibra de Vidrio Owens Corning R-13 15x93x3.5 Gris Aislamiento Térmico",
     "Caseton Poliestireno 60x60x2cm Blanco",
     "Accesorios para Aislante Grapas 1000pz Azul",
     "Foamular XPS R-10 2x4'x8' Plata Premium Construcción",
     "Material de Construcción Profesional Extra Resistente Color Negro Especial",
     "", "a", "ab", "abc", "a a", "ab ab", "abc abc", "de de", "Kit Gris",
     "Grapas 20pz Blanco", "Fibra de Vidrio", "Piso Ceramico 60x60 Gris",
     "Conector para Aislante 6pz", "Tornillo Punta de Broca 1/4",
     "abcdefghijklmnopqrstuvwxyzabcdefghijklmnopq"}

InitLabel ==
    /\ df = <<>>
    /\ category_keywords = <<>>
    /\ pc = "idle"
    /\ classifier = "none"
    /\ product_data = <<>>
    /\ result = NoMatch
    /\ tried = <<>>
    /\ remembered = <<>>
    /\ pipeline = "none"
    /\ stage = "idle"
    /\ item = NoData
    /\ invoked = <<>>
    /\ enhanced_product_data = NoData
    /\ formatter \in { [max_length |-> budget] : budget \in LabelBudgets }
    /\ calls = <<>>
    /\ source = NoData

\* label = self.format_store_label(title)
FormatLabel(title) ==
    /\ stage = "idle"
    /\ item' = [full_title |-> title] @@ FormatStoreLabelBy(title, formatter.max_length)
    /\ stage' = "returned"
    /\ UNCHANGED <<resolver_vars, pipeline, invoked, enhanced_product_data, formatter,
                   calls, source>>

\* the loop of test_formatter takes the next title
NextLabel ==
    /\ stage = "returned"
    /\ item' = NoData
    /\ stage' = "idle"
    /\ UNCHANGED <<resolver_vars, pipeline, invoked, enhanced_product_data, formatter,
                   calls, source>>

NextFormatter ==
    \/ \E title \in LabelTitles : FormatLabel(title)
    \/ NextLabel

SpecLabel == InitLabel /\ [][NextFormatter]_vars

(***************************************************************************)
(* The generators on their own: generate_ecommerce_title of TitleGenerator *)
(* and of EnhancedTitleGenerator, with the replies the service gives to    *)
(* the requests of the call.                                               *)
(***************************************************************************)
Plain == "TitleGenerator"
Enhanced == "EnhancedTitleGenerator"

\* descriptors handed to the generators
SynthesisDescriptors ==
    Products \cup { [original_title |-> "TOR PUNTA DE BROCA", producto_tipo |-> "tornillo"],
                    [brand |-> None, original_title |-> "XYZ"] }

\* category records as the resolver returns them
SynthesisCategories ==
    { MatchOf(RowPool[1], "exact") @@ [confidence |-> ConfUnit],
      MatchOf(RowPool[3], "exact") @@ [confidence |-> ConfUnit] }

InitSynthesis ==
    /\ df = <<>>
    /\ category_keywords = <<>>
    /\ pc = "idle"
    /\ classifier = "none"
    /\ product_data = <<>>
    /\ result = NoMatch
    /\ tried = <<>>
    /\ remembered = <<>>
    /\ NoRun

\* title = generator.generate_ecommerce_title(pd, category_info) of
\* TitleGenerator, the service replying to its one request
GenerateTitle(pd, category_info, titling) ==
    /\ stage = "idle"
    /\ product_data' = pd
    /\ result' = category_info
    /\ item' = [generator |-> Plain, replies |-> [title |-> titling],
                title |-> GenerateEcommerceTitle(pd, category_info, titling)]
    /\ stage' = "returned"
    /\ UNCHANGED <<df, category_keywords, pc, classifier, tried, remembered, pipeline,
                   invoked, enhanced_product_data, formatter, calls, source>>

\* the same of EnhancedTitleGenerator, the service replying to the research,
\* validation and title requests
GenerateEnhancedTitle(pd, category_info, research, validation, titling) ==
    /\ stage = "idle"
    /\ product_data' = pd
    /\ result' = category_info
    /\ \E call \in {EnhancedGenerateEcommerceTitle(pd, category_info, research,
                                                   validation, titling)} :
          /\ item' = [generator |-> Enhanced,
                      replies |-> [research |-> research, validation |-> validation,
                                   title |-> titling],
                      title |-> [raised |-> call.raised, value |-> call.value]]
          /\ enhanced_product_data' = call.enhanced_data
    /\ stage' = "returned"
    /\ UNCHANGED <<df, category_keywords, pc, classifier, tried, remembered, pipeline,
                   invoked, formatter, calls, source>>

\* the caller takes the title, or the exception, and goes on
NextGenerate ==
    /\ stage = "returned"
    /\ product_data' = <<>>
    /\ result' = NoMatch
    /\ item' = NoData
    /\ enhanced_product_data' = NoData
    /\ stage' = "idle"
    /\ UNCHANGED <<df, category_keywords, pc, classifier, tried, remembered, pipeline,
                   invoked, formatter, calls, source>>

NextSynthesis ==
    \/ \E pd \in SynthesisDescriptors, category_info \in SynthesisCategories,
          titling \in TitleReplies : GenerateTitle(pd, category_info, titling)
    \/ \E pd \in SynthesisDescriptors, category_info \in SynthesisCategories,
          research \in ResearchReplies, validation \in ValidationReplies,
          titling \in TitleReplies :
            GenerateEnhancedTitle(pd, category_info, research, validation, titling)
    \/ NextGenerate

SpecSynthesis == InitSynthesis /\ [][NextSynthesis]_vars

(***************************************************************************)
(* Loading the taxonomy: the source is a CSV file, or is missing; the      *)
(* frame a classifier loads has the columns of the file's header.          *)
(***************************************************************************)
RequiredColumns ==
    {"Departamento", "Familia", "Categoria", "Nomenclatura_sugerida", "Ejemplo_aplicado"}

\* the rows of the files
SourceRows == { <<>>, <<RowPool[1], RowPool[3]>>, <<RowPool[2]>> }

\* the files: a header with at least one of the columns, and under it the
\* values of the rows for the columns of the header (Frame); NoData is the
\* missing file
Sources ==
    {NoData} \cup { [columns |-> columns, rows |-> rows] :
                        columns \in (SUBSET RequiredColumns) \ {{}}, rows \in SourceRows }

\* pd.read_csv: the rows with the columns of the header
Frame(src) == [i \in DOMAIN src.rows |-> [c \in src.columns |-> src.rows[i][c]]]

\* the classifiers that load by pd.read_csv alone
Loaders == {"improved", "plain"}

\* __init__ up to the print: read_csv raises on a missing file;
\* ImprovedCategoryClassifier reads row['Categoria'] of every row for the
\* keyword lists, CategoryClassifier reads no column
LoadOutcome(kind, src) ==
    IF src = NoData THEN Raised("FileNotFoundError")
    ELSE IF kind = "improved" /\ src.rows # <<>> /\ "Categoria" \notin src.columns
    THEN Raised("KeyError")
    ELSE Ok(Frame(src))

\* the exact loop reads a column the frame lacks: row['Departamento'] on the
\* first row, row['Familia'] and row['Categoria'] once the fields before them
\* compare equal, and every column for the dict of a row that matches
ExactKeyError(columns, d, pd) ==
    \E i \in DOMAIN d :
        \/ "Departamento" \notin columns
        \/ /\ Upper(Get(pd, "departamento", "")) = Upper(d[i].Departamento)
           /\ \/ "Familia" \notin columns
              \/ /\ Upper(Get(pd, "familia", "")) = Upper(d[i].Familia)
                 /\ \/ "Categoria" \notin columns
                    \/ Upper(Get(pd, "categoria", "")) = Upper(Strip(d[i].Categoria))

\* a scoring loop builds the dict of a row, from every column, as soon as a
\* score is above the best so far
BuildsDict(scores) == BestOf(scores).index # 0

\* the scoring loop of a strategy of ImprovedCategoryClassifier builds a dict
StrategyBuildsDict(name, d, ck, pd) ==
    CASE name = "exact" -> FALSE
      [] name = "construction_aware" ->
            /\ Get(pd, "construction_analysis", <<>>) # <<>>
            /\ BuildsDict(ConstructionScores(d, pd))
      [] name = "enhanced_keyword" -> BuildsDict(KeywordScores(ck, pd))
      [] name = "fuzzy" -> BuildsDict(FuzzyScores2(d, pd))

\* ImprovedCategoryClassifier.find_category_match on a frame with the given
\* columns
ImprovedFindOn(columns, d, ck, pd) ==
    IF RequiredColumns \subseteq columns THEN Ok(ImprovedFindCategoryMatch(d, ck, pd).result)
    ELSE IF d = <<>> THEN Ok(NoMatch)
    ELSE IF ExactKeyError(columns, d, pd) THEN Raised("KeyError")
    ELSE IF \E i \in DOMAIN ImprovedCascade : StrategyBuildsDict(ImprovedCascade[i], d, ck, pd)
    THEN Raised("KeyError")
    ELSE Ok(NoMatch)

\* CategoryClassifier.find_category_match on a frame with the given columns
PlainFindOn(columns, d, pd) ==
    IF RequiredColumns \subseteq columns THEN Ok(PlainFindCategoryMatch(d, pd).result)
    ELSE IF d = <<>> THEN Ok(NoMatch)
    ELSE IF ExactKeyError(columns, d, pd) THEN Raised("KeyError")
    ELSE IF "Categoria" \notin columns THEN Raised("KeyError")
    ELSE IF BuildsDict(PlainScores(d, pd)) THEN Raised("KeyError")
    ELSE Ok(NoMatch)

FindOn(kind, columns, d, ck, pd) ==
    IF kind = "improved" THEN ImprovedFindOn(columns, d, ck, pd)
    ELSE PlainFindOn(columns, d, pd)

\* descriptors handed to a classifier after its load
LoadDescriptors ==
    { <<>>,
      [departamento |-> "Herramientas", familia |-> "Accesorios", categoria |-> "Brocas"],
      [departamento |-> "ferreteria"],
      OtherTitle,
      ScrewTitle @@ ScrewAnalysis }

InitLoad ==
    /\ source \in Sources
    /\ df = <<>>
    /\ category_keywords = <<>>
    /\ pc = "unloaded"
    /\ classifier = "none"
    /\ product_data = <<>>
    /\ result = NoMatch
    /\ tried = <<>>
    /\ remembered = <<>>
    /\ pipeline = "none"
    /\ stage = "idle"
    /\ item = NoData
    /\ invoked = <<>>
    /\ enhanced_product_data = NoData
    /\ formatter = [max_length |-> DefaultMaxLength]
    /\ calls = <<>>

\* a classifier is constructed on the source: the constructor raises, or the
\* classifier serves the frame it read
Load(kind) ==
    /\ pc = "unloaded"
    /\ \E loaded \in {LoadOutcome(kind, source)} :
          IF loaded.raised
          THEN /\ pc' = "load failed"
               /\ UNCHANGED <<df, category_keywords, classifier>>
          ELSE /\ pc' = "idle"
               /\ classifier' = kind
               /\ df' = loaded.value
               /\ IF kind = "improved"
                  THEN \E seed \in 0..MaxSeed :
                            category_keywords' = BuildCategoryKeywords(loaded.value, seed)
                  ELSE category_keywords' = <<>>
    /\ UNCHANGED <<product_data, result, tried, remembered>>
    /\ UNCHANGED others

\* find_category_match(pd) of the loaded classifier
LoadedCall(pd) ==
    /\ pc = "idle"
    /\ classifier \in Loaders
    /\ product_data' = pd
    /\ Outcome(FindOn(classifier, source.columns, df, category_keywords, pd))
    /\ UNCHANGED <<df, category_keywords, classifier, tried, remembered>>
    /\ UNCHANGED others

\* the caller goes on to the next descriptor, after a return or an exception
LoadedNext ==
    /\ pc \in {"returned", "raised"}
    /\ classifier \in Loaders
    /\ pc' = "idle"
    /\ product_data' = <<>>
    /\ result' = NoMatch
    /\ UNCHANGED <<df, category_keywords, classifier, tried, remembered>>
    /\ UNCHANGED others

NextLoad ==
    \/ \E kind \in Loaders : Load(kind)
    \/ \E pd \in LoadDescriptors : LoadedCall(pd)
    \/ LoadedNext

SpecLoad == InitLoad /\ [][NextLoad]_vars

(***************************************************************************)
(* TileFixedCategoryClassifier on taxonomies of floor-tile records         *)
(***************************************************************************)
MaxTileRows == 2    \* longest taxonomy of tile records loaded

\* records of the target family, of another family and of another department
TileRowPool == <<
    RowPool[6], RowPool[7],
    [Departamento |-> "REVESTIMIENTOS", Familia |-> "CERAMICA DE PISOS", Categoria |-> "MONOCOLOR",
     Nomenclatura_sugerida |-> "N8", Ejemplo_aplicado |-> "E8"],
    [Departamento |-> "REVESTIMIENTOS", Familia |-> "CERAMICA DE PARED", Categoria |-> "MADERAS",
     Nomenclatura_sugerida |-> "N9", Ejemplo_aplicado |-> "E9"],
    RowPool[1] >>

TileTaxonomies ==
    { t \in UNION { [1..n -> Range(TileRowPool)] : n \in 0..MaxTileRows } :
        \A i, j \in DOMAIN t : i # j => t[i] # t[j] }

\* raw titles with a pattern name, a common size, both or neither
TileTitles == { "BAMBOO AMARILLO 21X31", "BAMBOO AMARILLO", "PISO 60X60", "CAPRI BLANCO",
                "CLAY ROJO 30X30", "PISO 15X93", "XYZ" }

TileDescriptors == { [original_title |-> title, description |-> title] : title \in TileTitles }

InitTile ==
    /\ df \in TileTaxonomies
    /\ category_keywords = <<>>
    /\ pc = "idle"
    /\ classifier = "none"
    /\ product_data = <<>>
    /\ result = NoMatch
    /\ tried = <<>>
    /\ remembered = <<>>
    /\ NoRun

NextTile ==
    \/ \E pd \in TileDescriptors : TileCall(pd)
    \/ NextItem

SpecTile == InitTile /\ [][NextTile]_vars

(***************************************************************************)
(* The parsers on their own: parse_title_to_product_data of TitleParser,   *)
(* with the reply the service gives to its request, and of                 *)
(* ImprovedTitleParser, which sends none.                                  *)
(***************************************************************************)
PlainParser == "TitleParser"
ImprovedParser == "ImprovedTitleParser"

\* raw titles handed to the parsers
ParserTitles ==
    { "", "XYZ", "gris", "piso gris blanco", "Blanco y negro", "NEGRO AZUL 60x60",
      "azulejo rojo", "pintura verde rosa", "cafe negro", "verdeazul", "rojo-azul 20pz",
      "Truper broca 8mm", "lamina R-13 15x93x3 cm", "TOR PUNTA DE BROCA",
      "BAMBOO AMARILLO 21X31", "tubo naranja amarillo" }

\* replies of the service to the request of TitleParser
ParserReplies ==
    ExtractReplies \cup { Json("another title", [original_title |-> "otro", uso |-> "pisos"]),
                          Json("a color", [color |-> "Rojo", brand |-> "Truper"]) }

\* the color names of a parser
ColorsOf(parser) == IF parser = PlainParser THEN Colors ELSE ImprovedColors

InitExtract ==
    /\ df = <<>>
    /\ category_keywords = <<>>
    /\ pc = "idle"
    /\ classifier = "none"
    /\ product_data = <<>>
    /\ result = NoMatch
    /\ tried = <<>>
    /\ remembered = <<>>
    /\ NoRun

\* product_data = TitleParser().parse_title_to_product_data(raw_title): the
\* rule data, then the enrichment with the reply of the service
ParseTitle(raw_title, response) ==
    /\ stage = "idle"
    /\ \E rule_data \in {RuleBasedExtraction(raw_title)} :
          /\ item' = [parser |-> PlainParser, input_title |-> raw_title, reply |-> response,
                      rule_data |-> rule_data,
                      parsed_data |-> AiEnhancedParsing(rule_data, response)]
          /\ product_data' = AiEnhancedParsing(rule_data, response)
    /\ stage' = "returned"
    /\ UNCHANGED <<df, category_keywords, pc, classifier, result, tried, remembered,
                   pipeline, invoked, enhanced_product_data, formatter, calls, source>>

\* the same of ImprovedTitleParser: the rule data are the descriptor
ImprovedParseTitle(raw_title) ==
    /\ stage = "idle"
    /\ \E rule_data \in {ImprovedRuleBasedExtraction(raw_title)} :
          /\ item' = [parser |-> ImprovedParser, input_title |-> raw_title,
                      reply |-> NoData, rule_data |-> rule_data,
                      parsed_data |-> ImprovedParseTitleToProductData(raw_title)]
          /\ product_data' = ImprovedParseTitleToProductData(raw_title)
    /\ stage' = "returned"
    /\ UNCHANGED <<df, category_keywords, pc, classifier, result, tried, remembered,
                   pipeline, invoked, enhanced_product_data, formatter, calls, source>>

\* the caller takes the descriptor and parses the next title
NextParse ==
    /\ stage = "returned"
    /\ item' = NoData
    /\ product_data' = <<>>
    /\ stage' = "idle"
    /\ UNCHANGED <<df, category_keywords, pc, classifier, result, tried, remembered,
                   pipeline, invoked, enhanced_product_data, formatter, calls, source>>

NextExtract ==
    \/ \E raw_title \in ParserTitles, response \in ParserReplies :
            ParseTitle(raw_title, response)
    \/ \E raw_title \in ParserTitles : ImprovedParseTitle(raw_title)
    \/ NextParse

SpecExtract == InitExtract /\ [][NextExtract]_vars

(***************************************************************************)
(* ImprovedCategoryClassifier on taxonomies of hardware records, with      *)
(* descriptors that carry detected construction terms                      *)
(***************************************************************************)
MaxDomainRows == 2  \* longest taxonomy of hardware records loaded

DomainCategories == <<"TORNILLOS AUTORROSCANTES", "TORNILLOS", "BROCAS Y PUNTAS",
                      "CHAPAS Y CERRADURAS", "LLAVES Y CHAPAS", "LLAVES",
                      "YESOS Y PARAFINAS PARA BROCAS">>

DomainRowPool ==
    [i \in DOMAIN DomainCategories |->
        [Departamento |-> "FERRETERIA", Familia |-> "HERRAJES", Categoria |-> DomainCategories[i],
         Nomenclatura_sugerida |-> "N", Ejemplo_aplicado |-> "E"]]

DomainTaxonomies ==
    { t \in UNION { [1..n -> Range(DomainRowPool)] : n \in 0..MaxDomainRows } :
        \A i, j \in DOMAIN t : i # j => t[i] # t[j] }

\* descriptors as a parser with the construction vocabulary hands them on
DomainDescriptors ==
    { [construction_analysis |-> [detected_terms |-> terms]] :
        terms \in { {"TOR", "BROCA"}, {"TOR", "BROCA", "PUNTA"}, {"CHAPA"}, {"CHAPA", "LLAVE"},
                    {"BROCA", "PUNTA"}, {"LLAVE"} } }
    \cup { [producto_tipo |-> "cerradura de puerta",
            construction_analysis |-> [detected_terms |-> {"LLAVE"}]] }

InitDomain ==
    /\ df \in DomainTaxonomies
    /\ \E seed \in 0..MaxSeed : category_keywords = BuildCategoryKeywords(df, seed)
    /\ pc = "idle"
    /\ classifier = "none"
    /\ product_data = <<>>
    /\ result = NoMatch
    /\ tried = <<>>
    /\ remembered = <<>>
    /\ NoRun

NextDomain ==
    \/ \E pd \in DomainDescriptors : ImprovedCall(pd)
    \/ NextItem

SpecDomain == InitDomain /\ [][NextDomain]_vars

(***************************************************************************)
(* ImprovedCategoryClassifier with descriptors whose words only the fuzzy  *)
(* strategy can place                                                      *)
(***************************************************************************)
FuzzyRowPool ==
    [i \in 1..3 |->
        [Departamento |-> "MATERIALES", Familia |-> "VARIOS",
         Categoria |-> <<"LLAVES", "YESOS", "TUBOS Y LLAVES">>[i],
         Nomenclatura_sugerida |-> "N", Ejemplo_aplicado |-> "E"]]

FuzzyTaxonomies ==
    { t \in UNION { [1..n -> Range(FuzzyRowPool)] : n \in 0..2 } :
        \A i, j \in DOMAIN t : i # j => t[i] # t[j] }

\* words that hold a category word, are held by a category name, or neither
FuzzyTexts == { "LLAVESXYZ", "LLAVESXYZW", "DE LLAVESXYZW", "LLAVESXY DE", "YESOSXYZW",
                "YES YESOSX", "YE YESOSXYZWA", "YESO", "YES", "XYZ", "TUBOSX LLAVESX" }

FuzzyDescriptors ==
    { [description |-> text] : text \in FuzzyTexts }
    \cup { [original_title |-> text] : text \in FuzzyTexts }

InitFuzzy ==
    /\ df \in FuzzyTaxonomies
    /\ \E seed \in 0..MaxSeed : category_keywords = BuildCategoryKeywords(df, seed)
    /\ pc = "idle"
    /\ classifier = "none"
    /\ product_data = <<>>
    /\ result = NoMatch
    /\ tried = <<>>
    /\ remembered = <<>>
    /\ NoRun

NextFuzzy ==
    \/ \E pd \in FuzzyDescriptors : ImprovedCall(pd)
    \/ NextItem

SpecFuzzy == InitFuzzy /\ [][NextFuzzy]_vars

(***************************************************************************)
(* Batches: process_title_list and process_batch take a list of inputs     *)
(* through the per-item processing and collect the results.                *)
(***************************************************************************)
MaxBatch == 2  \* longest list handed to a batch call

\* steps 3 and 4 of the per-item processing, once the generator has answered
ItemTitled(p, resolved, title, max_length) ==
    IF title.raised THEN PipelineError(resolved, title.value)
    ELSE IF title.value = ""
    THEN [resolved EXCEPT !.errors = Append(@, NoTitleError(p))]
    ELSE [WithTitle(p, resolved, title.value) EXCEPT
            !.store_label = FormatStoreLabel(title.value, max_length),
            !.success = TRUE]

\* the per-item processing from the outcome of the category step on
ItemResolved(p, parsed, parsed_data, category_match, max_length, replies) ==
    IF category_match.raised THEN PipelineError(parsed, category_match.value)
    ELSE IF category_match.value = NoMatch
    THEN [parsed EXCEPT !.errors = Append(@, NoCategoryError(p))]
    ELSE CHOOSE r \in
            { ItemTitled(p, [parsed EXCEPT !.category_match = category_match.value],
                         title, max_length) :
                title \in { SynthesisCall(p, parsed_data, category_match.value,
                                          replies.research, replies.validation,
                                          replies.title) } } : TRUE

\* step 2 of the per-item processing: the category, or the error raised
ItemCategory(p, d, keywords, parsed_data) ==
    CHOOSE r \in { IF call.raised THEN call ELSE CategoryMatch(p, d, parsed_data, call.value) :
                     call \in { ResolverCall(p, d, keywords, parsed_data) } } : TRUE

\* the per-item processing from the parsed data on
ItemParsed(p, d, keywords, max_length, input, parsed_data, replies) ==
    CHOOSE r \in
        { ItemResolved(p, IF p = Product THEN InitialResult(p, input)
                          ELSE [InitialResult(p, input) EXCEPT !.parsed_data = parsed_data],
                       parsed_data, category_match, max_length, replies) :
            category_match \in { ItemCategory(p, d, keywords, parsed_data) } } : TRUE

\* process_raw_title / process_product as one call: the result dict it
\* returns, with the replies of the service to its requests
ProcessItem(p, d, keywords, max_length, input, replies) ==
    CHOOSE r \in
        { ItemParsed(p, d, keywords, max_length, input, parsed_data, replies) :
            parsed_data \in { IF p = Product THEN input
                              ELSE IF p = Updated THEN ImprovedParseTitleToProductData(input)
                              ELSE ParseTitleToProductData(input, replies.extract) } } : TRUE

\* the statistics process_title_list of UpdatedCompletePipeline prints after
\* the loop: the success rate divides by the number of results
SuccessRate(results) ==
    LET total == Len(results)
        successful == Cardinality({ i \in DOMAIN results : results[i].success })
    IN IF total = 0 THEN Raised("ZeroDivisionError")
       ELSE Ok((successful * 100) \div total)

\* what the batch call of pipeline p does once the loop is over
BatchReturn(p, results) ==
    IF p = Updated /\ SuccessRate(results).raised THEN SuccessRate(results)
    ELSE Ok(results)

\* the inputs of a batch of pipeline p
BatchInputs(p) == IF p = Product THEN Products ELSE {"TOR PUNTA DE BROCA", "XYZ"}

BatchLists(p) == UNION { [1..n -> BatchInputs(p)] : n \in 0..MaxBatch }

\* the replies of the service to the requests made for one item
BatchReplies ==
    [extract : {ServiceRaises, Json("keywords", [categoria_keywords |-> <<"BROCA">>])},
     research : {ServiceRaises, FencedJson("research", [product_category |-> "Tornillos"])},
     validation : {ServiceRaises,
                   Json("does not fit", [category_makes_sense |-> FALSE, severity |-> "high"])},
     title : {ServiceRaises, Text("\"Broca Truper 8mm\"")}]

InitBatch ==
    /\ df \in PipelineTaxonomies
    /\ \E seed \in 0..MaxSeed : category_keywords = BuildCategoryKeywords(df, seed)
    /\ pc = "idle"
    /\ classifier = "none"
    /\ product_data = <<>>
    /\ result = NoMatch
    /\ tried = <<>>
    /\ remembered = <<>>
    /\ NoRun

\* process_title_list(titles) or process_batch(products) is entered
StartBatch(p, inputs) ==
    /\ stage = "idle"
    /\ pipeline' = p
    /\ item' = [inputs |-> inputs, results |-> <<>>, returned |-> NoData]
    /\ stage' = "batch"
    /\ UNCHANGED <<resolver_vars, invoked, enhanced_product_data, formatter, calls, source>>

\* one turn of the loop: the next input is processed and its result appended
BatchItem(replies) ==
    /\ stage = "batch"
    /\ Len(item.results) < Len(item.inputs)
    /\ \E r \in { ProcessItem(pipeline, df, category_keywords, formatter.max_length,
                              item.inputs[Len(item.results) + 1], replies) } :
          item' = [item EXCEPT !.results = Append(@, r)]
    /\ UNCHANGED <<resolver_vars, pipeline, stage, invoked, enhanced_product_data,
                   formatter, calls, source>>

\* the loop is over: the statistics are printed and the results returned
BatchEnd ==
    /\ stage = "batch"
    /\ Len(item.results) = Len(item.inputs)
    /\ item' = [item EXCEPT !.returned = BatchReturn(pipeline, item.results)]
    /\ stage' = "returned"
    /\ UNCHANGED <<resolver_vars, pipeline, invoked, enhanced_product_data,
                   formatter, calls, source>>

\* the caller takes the list, or the exception, and goes on
NextBatchCall ==
    /\ stage = "returned"
    /\ pipeline' = "none"
    /\ item' = NoData
    /\ stage' = "idle"
    /\ UNCHANGED <<resolver_vars, invoked, enhanced_product_data, formatter, calls, source>>

NextBatch ==
    \/ \E p \in Pipelines : \E inputs \in BatchLists(p) : StartBatch(p, inputs)
    \/ \E replies \in BatchReplies : BatchItem(replies)
    \/ BatchEnd
    \/ NextBatchCall

SpecBatch == InitBatch /\ [][NextBatch]_vars

(***************************************************************************)
(* SmartMessyParser: a product title followed by the text of a pasted      *)
(* taxonomy path                                                           *)
(***************************************************************************)
MaxMessyRows == 2  \* longest taxonomy the messy parser loads

\* the characters of [A-Z0-9\s] that the inputs hold
ProductChars == "ABCDEFGHIJKLMNOPQRSTUVWXYZ0123456789 "

InChars(c, chars) == \E i \in 1..Len(chars) : CharAt(chars, i) = c

\* length of the run of characters of chars that starts at k
RunOf(s, k, chars) ==
    IF \A i \in k..Len(s) : InChars(CharAt(s, i), chars) THEN Len(s) - k + 1
    ELSE (CHOOSE i \in k..Len(s) : /\ ~InChars(CharAt(s, i), chars)
                                   /\ \A j \in k..(i - 1) : InChars(CharAt(s, j), chars)) - k

\* re.match(r'^([A-Z0-9\s]+(?:\d+[xX]\d+)?[A-Z]*)', cleaned): group(1), or
\* "" without a match
ProductMatch(cleaned) ==
    LET run == RunOf(cleaned, 1, ProductChars)
        dims == MatchEnd(<<TDigits, TClass({"x", "X"}), TDigits>>, cleaned, run + 1, FALSE)
        at == IF dims = 0 THEN run + 1 ELSE dims
    IN IF run = 0 THEN ""
       ELSE SubSeq(cleaned, 1, at - 1 + RunOf(cleaned, at, UpperLetters))

\* SmartMessyParser._text_contains_phrase: every word of the phrase that is
\* longer than 2 characters stands somewhere in the text
TextContainsPhrase(text, phrase) ==
    \A word \in Range(Split(phrase)) : Len(word) > 2 => Contains(word, text)

\* the triple of a row with the confidence the parser gives it
StructureOf(row, confidence) ==
    [departamento |-> row.Departamento, familia |-> row.Familia,
     categoria |-> row.Categoria, confidence |-> confidence]

\* category_indicators, in dict order
CategoryIndicators == <<
    [indicator |-> "LISTELOS", dept |-> "REVESTIMIENTOS",
     family |-> "CERAMICA DE MUROS Y COMPLEMENTOS", cat |-> "LISTELOS"],
    [indicator |-> "MALLAS", dept |-> "REVESTIMIENTOS",
     family |-> "CERAMICA DE MUROS Y COMPLEMENTOS", cat |-> "LISTELOS"],
    [indicator |-> "CERAMICA", dept |-> "REVESTIMIENTOS",
     family |-> "CERAMICA DE PISOS", cat |-> "BALDOSA"],
    [indicator |-> "PISOS", dept |-> "REVESTIMIENTOS",
     family |-> "CERAMICA DE PISOS", cat |-> "BALDOSA"],
    [indicator |-> "PAREDES", dept |-> "REVESTIMIENTOS",
     family |-> "CERAMICA DE MUROS Y COMPLEMENTOS", cat |-> "CERAMICA DE MURO"] >>

\* the rows whose triple is the one of the indicator, whatever the case
RowsOfIndicator(d, ind) ==
    { i \in DOMAIN d : /\ Upper(d[i].Departamento) = ind.dept
                       /\ Upper(d[i].Familia) = ind.family
                       /\ Upper(d[i].Categoria) = ind.cat }

\* the triple of the indicator as it is, without the look-up in the taxonomy
TryPartialMatching_Unverified(d, text) ==
    LET hits == { k \in DOMAIN CategoryIndicators :
                    Contains(CategoryIndicators[k].indicator, text) }
    IN IF hits = {} THEN NoData
       ELSE LET ind == CategoryIndicators[CHOOSE k \in hits : \A h \in hits : k <= h]
            IN [departamento |-> ind.dept, familia |-> ind.family, categoria |-> ind.cat,
                confidence |-> (7 * ConfUnit) \div 10]

\* SmartMessyParser._try_partial_matching: the first indicator in the text
\* whose triple is in the taxonomy gives the first row with that triple
TryPartialMatching(d, text) ==
    LET hits == { k \in DOMAIN CategoryIndicators :
                    /\ Contains(CategoryIndicators[k].indicator, text)
                    /\ RowsOfIndicator(d, CategoryIndicators[k]) # {} }
    IN IF hits = {} THEN NoData
       ELSE LET rows == RowsOfIndicator(d, CategoryIndicators[CHOOSE k \in hits :
                                                                \A h \in hits : k <= h])
            IN StructureOf(d[CHOOSE i \in rows : \A j \in rows : i <= j],
                           (7 * ConfUnit) \div 10)

\* SmartMessyParser._extract_structure_from_messy: the first row whose
\* department, family and category all stand in the text, or the partial match
ExtractStructureFromMessy(d, text) ==
    LET text_upper == Upper(text)
        full == { i \in DOMAIN d : /\ TextContainsPhrase(text_upper, Upper(d[i].Departamento))
                                   /\ TextContainsPhrase(text_upper, Upper(d[i].Familia))
                                   /\ TextContainsPhrase(text_upper, Upper(d[i].Categoria)) }
        row == d[CHOOSE i \in full : \A j \in full : i <= j]
    IN IF full # {} /\ row.Departamento # "" /\ row.Familia # "" /\ row.Categoria # ""
       THEN StructureOf(row, (9 * ConfUnit) \div 10)
       ELSE TryPartialMatching(d, text_upper)

\* the text parse_messy_title searches for the structure
RemainingText(messy_input) ==
    LET cleaned == Remove(Replace(Strip(messy_input), "\n", " "), "\r")
    IN Upper(SubSeq(cleaned, Len(Strip(ProductMatch(cleaned))) + 1, Len(cleaned)))

\* SmartMessyParser.parse_messy_title
ParseMessyTitle(d, messy_input) ==
    LET cleaned == Remove(Replace(Strip(messy_input), "\n", " "), "\r")
        product_title == Strip(ProductMatch(cleaned))
        extracted_structure == ExtractStructureFromMessy(d, RemainingText(messy_input))
        parsed == [original_title |-> product_title, description |-> product_title,
                   messy_input |-> messy_input, parsed_structure |-> None]
    IN IF extracted_structure # NoData
       THEN [parsed_structure |-> "structured_data_found"] @@ extracted_structure @@ parsed
       ELSE parsed

\* SmartMessyParser.find_best_category_match: the first row with the triple
\* of the descriptor, whatever the case; else the tile pattern fallback
SmartFindBestCategoryMatch(d, pd) ==
    LET rows == IF {"departamento", "familia", "categoria"} \subseteq DOMAIN pd
                THEN { i \in DOMAIN d : /\ Upper(d[i].Departamento) = Upper(pd.departamento)
                                        /\ Upper(d[i].Familia) = Upper(pd.familia)
                                        /\ Upper(d[i].Categoria) = Upper(pd.categoria) }
                ELSE {}
        title == Upper(Get(pd, "original_title", ""))
        listelos == { i \in DOMAIN d : Contains("LISTELOS", Upper(d[i].Categoria)) }
        Found(row, mtype, confidence) ==
            [departamento |-> row.Departamento, familia |-> row.Familia,
             categoria |-> row.Categoria,
             nomenclatura_sugerida |-> row.Nomenclatura_sugerida,
             ejemplo_aplicado |-> row.Ejemplo_aplicado,
             match_type |-> mtype, confidence |-> confidence]
    IN IF rows # {}
       THEN Found(d[CHOOSE i \in rows : \A j \in rows : i <= j], "intelligent_structured",
                  Get(pd, "confidence", ConfUnit))
       ELSE IF /\ \E pattern \in {"BAMBOO", "CAPRI", "CLAY"} : Contains(pattern, title)
               /\ listelos # {}
       THEN Found(d[CHOOSE i \in listelos : \A j \in listelos : i <= j],
                  "intelligent_tile_pattern", (8 * ConfUnit) \div 10)
       ELSE NoMatch

\* the records of the taxonomies
MessyRowPool == <<
    [Departamento |-> "REVESTIMIENTOS", Familia |-> "CERAMICA DE PISOS",
     Categoria |-> "BALDOSA", Nomenclatura_sugerida |-> "M1", Ejemplo_aplicado |-> "E1"],
    [Departamento |-> "Revestimientos", Familia |-> "Ceramica de Pisos",
     Categoria |-> "Baldosa", Nomenclatura_sugerida |-> "M2", Ejemplo_aplicado |-> "E2"],
    [Departamento |-> "REVESTIMIENTOS", Familia |-> "CERAMICA DE MUROS Y COMPLEMENTOS",
     Categoria |-> "LISTELOS", Nomenclatura_sugerida |-> "M3", Ejemplo_aplicado |-> "E3"],
    [Departamento |-> "REVESTIMIENTOS", Familia |-> "CERAMICA DE MUROS Y COMPLEMENTOS",
     Categoria |-> "LISTELOS Y MALLAS", Nomenclatura_sugerida |-> "M4",
     Ejemplo_aplicado |-> "E4"],
    [Departamento |-> "FERRETERIA", Familia |-> "TORNILLERIA", Categoria |-> "TORNILLOS",
     Nomenclatura_sugerida |-> "M5", Ejemplo_aplicado |-> "E5"] >>

MessyTaxonomies ==
    { t \in UNION { [1..n -> Range(MessyRowPool)] : n \in 0..MaxMessyRows } :
        \A i, j \in DOMAIN t : i # j => t[i] # t[j] }

\* pasted inputs: the title in capitals, then the path in any case
MessyInputs ==
    { "BAMBOO AMARILLO 21X31PISOS Y PAREDES CERAMICA DE MUROS Y COMPLEMENTOS LISTELOS Y MALLAS",
      "BAMBOO AMARILLO 21X31 - Revestimientos / Ceramica de muros y complementos / Listelos y mallas",
      "CLAY 30X30 revestimientos ceramica de pisos baldosa",
      "TOR 8MM (Ferreteria, Tornilleria, Tornillos)",
      "CAPRI 20x20cm listelos",
      "PISO GRIS 60X60\npisos y paredes",
      "CLAY ROJO, para paredes",
      "broca truper 8mm",
      "XYZ",
      "" }

InitMessy ==
    /\ df \in MessyTaxonomies
    /\ category_keywords = <<>>
    /\ pc = "idle"
    /\ classifier = "none"
    /\ product_data = <<>>
    /\ result = NoMatch
    /\ tried = <<>>
    /\ remembered = <<>>
    /\ NoRun

\* result = parser.parse_messy_title(messy_input)
ParseMessy(messy_input) ==
    /\ stage = "idle"
    /\ item' = [messy_input |-> messy_input, remaining_text |-> RemainingText(messy_input)]
    /\ product_data' = ParseMessyTitle(df, messy_input)
    /\ stage' = "parsed"
    /\ UNCHANGED <<df, category_keywords, pc, classifier, result, tried, remembered,
                   pipeline, invoked, enhanced_product_data, formatter, calls, source>>

\* match = parser.find_best_category_match(result)
FindBestMatch ==
    /\ stage = "parsed"
    /\ classifier' = "SmartMessyParser"
    /\ result' = SmartFindBestCategoryMatch(df, product_data)
    /\ stage' = "returned"
    /\ UNCHANGED <<df, category_keywords, pc, product_data, tried, remembered,
                   pipeline, item, invoked, enhanced_product_data, formatter, calls, source>>

\* the caller prints the match and takes the next input
NextMessyInput ==
    /\ stage = "returned"
    /\ item' = NoData
    /\ product_data' = <<>>
    /\ result' = NoMatch
    /\ classifier' = "none"
    /\ stage' = "idle"
    /\ UNCHANGED <<df, category_keywords, pc, tried, remembered,
                   pipeline, invoked, enhanced_product_data, formatter, calls, source>>

NextMessy ==
    \/ \E messy_input \in MessyInputs : ParseMessy(messy_input)
    \/ FindBestMatch
    \/ NextMessyInput

SpecMessy == InitMessy /\ [][NextMessy]_vars

(***************************************************************************)
(* Properties                                                              *)
(***************************************************************************)
Returned == pc = "returned"

IsMatch(m) == m # NoMatch

\* the rows of the pool differ in Nomenclatura sugerida, so a match names its row
RowOf(m) == CHOOSE i \in DOMAIN df : df[i].Nomenclatura_sugerida = m.nomenclatura_sugerida

\* case-insensitive equality of two strings
SameIgnoringCase(a, b) ==
    /\ Len(a) = Len(b)
    /\ \A i \in 1..Len(a) : UpChar(CharAt(a, i)) = UpChar(CharAt(b, i))

\* the three hints equal the three fields of the row as the source holds them
HintsEqualRow(pd, row) ==
    /\ SameIgnoringCase(Get(pd, "departamento", ""), row.Departamento)
    /\ SameIgnoringCase(Get(pd, "familia", ""), row.Familia)
    /\ SameIgnoringCase(Get(pd, "categoria", ""), row.Categoria)

\* the same with the Categoria of the row trimmed
HintsEqualTrimmedRow(pd, row) ==
    /\ SameIgnoringCase(Get(pd, "departamento", ""), row.Departamento)
    /\ SameIgnoringCase(Get(pd, "familia", ""), row.Familia)
    /\ SameIgnoringCase(Get(pd, "categoria", ""), Strip(row.Categoria))

ExactTypes == {"exact", "exact_structured"}

\* C1 as stated: whenever the hints equal, case-insensitively, the
\* Departamento, Familia and Categoria of a taxonomy record, every resolver
\* returns such a record with confidence 1.0 and an exact match type.
C1_AsStated ==
    Returned =>
        \A i \in DOMAIN df :
            HintsEqualRow(product_data, df[i]) =>
                /\ IsMatch(result)
                /\ result.match_type \in ExactTypes
                /\ "confidence" \in DOMAIN result
                /\ result.confidence = ConfUnit
                /\ HintsEqualRow(product_data, df[RowOf(result)])

\* C1 amended: whenever the hints equal, case-insensitively, the Departamento,
\* the Familia and the trimmed Categoria of a taxonomy record, every resolver
\* returns the first such record with an exact match type after trying the
\* exact lookup only; ImprovedCategoryClassifier and
\* TileFixedCategoryClassifier give it confidence 1.0, CategoryClassifier
\* gives it no confidence field.
C1_ExactPrecedence ==
    Returned =>
        \A i \in DOMAIN df :
            (/\ HintsEqualTrimmedRow(product_data, df[i])
             /\ \A j \in 1..(i - 1) : ~HintsEqualTrimmedRow(product_data, df[j]))
            => /\ IsMatch(result)
               /\ RowOf(result) = i
               /\ result.categoria = Strip(df[i].Categoria)
               /\ result.match_type \in ExactTypes
               /\ Len(tried) = 1 /\ tried[1] \in ExactTypes
               /\ classifier \in {"improved", "tile"} =>
                    "confidence" \in DOMAIN result /\ result.confidence = ConfUnit
               /\ classifier = "plain" => "confidence" \notin DOMAIN result

\* C1 witness: an exact match returned although the construction-aware
\* strategy accepts another record for the same descriptor
C1_Witness ==
    /\ Returned /\ classifier = "improved"
    /\ IsMatch(result) /\ result.match_type = "exact"
    /\ IsMatch(TryConstructionAwareMatch(df, product_data))
    /\ TryConstructionAwareMatch(df, product_data).nomenclatura_sugerida
         # result.nomenclatura_sugerida

\* the fixed order of the claim
FixedOrder == <<"exact", "construction_aware", "enhanced_keyword", "fuzzy">>

\* what each strategy would return for the descriptor of the call, on its own
Alone(name) ==
    CASE name = "exact" -> TryExactMatch(df, product_data)
      [] name = "construction_aware" -> TryConstructionAwareMatch(df, product_data)
      [] name = "enhanced_keyword" -> TryEnhancedKeywordMatch(df, category_keywords, product_data)
      [] name = "fuzzy" -> TryFuzzyMatch(df, product_data)

\* C2: ImprovedCategoryClassifier returns the result of the first strategy, in
\* the order exact, construction_aware, enhanced_keyword, fuzzy, that accepts,
\* whatever the later ones would return; a later strategy's result is returned
\* only if every earlier one returned nothing.
C2_FirstAcceptingStrategy ==
    (Returned /\ classifier = "improved") =>
        /\ \A i \in DOMAIN FixedOrder :
              (/\ IsMatch(Alone(FixedOrder[i]))
               /\ \A j \in 1..(i - 1) : ~IsMatch(Alone(FixedOrder[j])))
              => /\ result = Alone(FixedOrder[i])
                 /\ result.match_type = FixedOrder[i]
                 /\ tried = SubSeq(FixedOrder, 1, i)
        /\ (\A i \in DOMAIN FixedOrder : ~IsMatch(Alone(FixedOrder[i]))) => ~IsMatch(result)

\* C2 witness: a construction-aware match returned for a descriptor that the
\* keyword and the fuzzy strategy accept as well
C2_Witness ==
    /\ Returned /\ classifier = "improved"
    /\ IsMatch(result) /\ result.match_type = "construction_aware"
    /\ IsMatch(Alone("enhanced_keyword"))
    /\ IsMatch(Alone("fuzzy"))

ScoringStrategies == {"construction_aware", "enhanced_keyword", "keyword", "fuzzy", "partial"}

\* the place of a strategy in the strategies tried: 0 if it was not tried
PlaceOf(name) ==
    IF \E i \in DOMAIN tried : tried[i] = name
    THEN CHOOSE i \in DOMAIN tried : tried[i] = name
    ELSE 0

\* C3: the pattern override pre-pass is evaluated only after the exact lookup
\* returned no record and before any scoring strategy; a record it yields is
\* returned and no scoring strategy is evaluated; when it yields nothing the
\* cascade goes on to the scoring strategy.
C3_PatternOverridePlace ==
    (Returned /\ classifier = "tile") =>
        LET place == PlaceOf("tile_pattern")
            exact == IF HasStructuredData(product_data) THEN TileExactMatch(df, product_data)
                     ELSE NoMatch
            override == ClassifyTileProducts(df, product_data)
        IN /\ IsMatch(exact) => place = 0 /\ result = exact
           /\ ~IsMatch(exact) =>
                /\ place # 0
                /\ \A i \in 1..(place - 1) : tried[i] \in ExactTypes
                /\ IsMatch(override) =>
                     /\ result = override
                     /\ place = Len(tried)
                     /\ \A i \in DOMAIN tried : tried[i] \notin ScoringStrategies
                /\ ~IsMatch(override) =>
                     /\ Len(tried) = place + 1
                     /\ tried[place + 1] = "keyword"
                     /\ result = TileKeywordMatch(df, product_data)

\* C3 witness: the exact lookup was tried and found nothing, the pre-pass
\* returned its record, and the keyword strategy would have accepted one too
C3_Witness ==
    /\ Returned /\ classifier = "tile"
    /\ tried = <<"exact_structured", "tile_pattern">>
    /\ IsMatch(result) /\ result.match_type = "tile_pattern_match"
    /\ IsMatch(TileKeywordMatch(df, product_data))

HasAnalysis(pd) == DOMAIN Get(pd, "construction_analysis", <<>>) # {}

\* no row passes the exact lookup, and no row's score gives a confidence
\* above the threshold of its strategy (0.3, 0.2, 0.15)
NothingClears(pd) ==
    /\ \A i \in DOMAIN df : ~HintsEqualTrimmedRow(pd, df[i])
    /\ HasAnalysis(pd) => \A i \in DOMAIN df : 3 * ConstructionScores(df, pd)[i] <= 90
    /\ \A e \in DOMAIN category_keywords : 6 * KeywordScores(category_keywords, pd)[e] <= 60
    /\ \A i \in DOMAIN df : 5 * FuzzyScores2(df, pd)[i] <= 45

C5_AsStated ==
    (Returned /\ IsMatch(result)) =>
        /\ "confidence" \in DOMAIN result
        /\ result.confidence >= 0 /\ result.confidence <= ConfUnit
        /\ result.match_type \in ExactTypes => result.confidence = ConfUnit
        /\ result.match_type = "construction_aware" => result.confidence > 90
        /\ result.match_type \in {"enhanced_keyword", "keyword"} => result.confidence > 60
        /\ result.match_type = "fuzzy" => result.confidence > 45

\* C5 amended: every match ImprovedCategoryClassifier or
\* TileFixedCategoryClassifier returns carries a confidence in [0,1]: 1.0 for
\* an exact match, above 0.3 for construction_aware, above 0.2 for
\* enhanced_keyword and keyword, above 0.15 for fuzzy, and the fixed 0.95 or
\* 0.85 of the tile pre-pass, which is compared with no threshold; a match of
\* CategoryClassifier carries no confidence, and its partial match is
\* returned whenever its score is positive.
C5_ConfidenceClearsThreshold ==
    (Returned /\ IsMatch(result)) =>
        /\ classifier \in {"improved", "tile"} =>
            /\ "confidence" \in DOMAIN result
            /\ result.confidence >= 0 /\ result.confidence <= ConfUnit
            /\ result.match_type \in ExactTypes => result.confidence = ConfUnit
            /\ result.match_type = "construction_aware" => result.confidence > 90
            /\ result.match_type \in {"enhanced_keyword", "keyword"} => result.confidence > 60
            /\ result.match_type = "fuzzy" => result.confidence > 45
            /\ result.match_type = "tile_pattern_match" => result.confidence = 285
            /\ result.match_type = "tile_generic_match" => result.confidence = 255
        /\ classifier = "plain" =>
            /\ "confidence" \notin DOMAIN result
            /\ result.match_type \in {"exact", "partial"}
            /\ result.match_type = "partial" => result.score > 0

\* C5 witness: a construction-aware match of confidence 0.5
C5_Witness ==
    /\ Returned /\ classifier = "improved"
    /\ IsMatch(result) /\ result.match_type = "construction_aware"
    /\ result.confidence = 150

\* the highest construction-aware score of the taxonomy, 0 if it is empty
TopConstructionScore(pd) ==
    LET scores == ConstructionScores(df, pd)
    IN IF df = <<>> THEN 0
       ELSE CHOOSE v \in Range(scores) : \A w \in Range(scores) : w <= v

\* C6: the construction-aware acceptance test is strict: a score of 30 is
\* rejected and a score of 31 accepted; in a call where the exact lookup found
\* nothing, a best score of 30 or less sends the cascade on to the keyword
\* strategy, and a best score of 31 or more returns the best record with
\* confidence min(score/100, 1.0).
C6_StrictThreshold ==
    /\ ~ConstructionAccepts(ConstructionConfidence(30))
    /\ ConstructionAccepts(ConstructionConfidence(31))
    /\ (/\ Returned /\ classifier = "improved"
        /\ HasAnalysis(product_data)
        /\ \A i \in DOMAIN df : ~HintsEqualTrimmedRow(product_data, df[i]))
       => LET top == TopConstructionScore(product_data)
          IN /\ top <= 30 =>
                  /\ ~(IsMatch(result) /\ result.match_type = "construction_aware")
                  /\ Len(tried) >= 3
                  /\ tried[2] = "construction_aware" /\ tried[3] = "enhanced_keyword"
             /\ top >= 31 =>
                  /\ IsMatch(result) /\ result.match_type = "construction_aware"
                  /\ tried = <<"exact", "construction_aware">>
                  /\ ConstructionScores(df, product_data)[RowOf(result)] = top
                  /\ result.score = top
                  /\ result.confidence = (IF top >= 100 THEN ConfUnit ELSE 3 * top)

\* C6 witness: the best record scored 20, was rejected, and the keyword
\* strategy was tried next
C6_Witness ==
    /\ Returned /\ classifier = "improved"
    /\ HasAnalysis(product_data)
    /\ TopConstructionScore(product_data) = 20
    /\ Len(tried) >= 3 /\ tried[3] = "enhanced_keyword"

\* the score of row i under the strategy that produced the match
ScoreUnder(mtype, i) ==
    CASE mtype = "construction_aware" -> ConstructionScores(df, product_data)[i]
      [] mtype = "enhanced_keyword" ->
            KeywordScores(category_keywords, product_data)[
                CHOOSE e \in DOMAIN category_keywords :
                    category_keywords[e].categoria = Upper(Strip(df[i].Categoria))]
      [] mtype = "fuzzy" -> FuzzyScores2(df, product_data)[i]
      [] mtype = "keyword" -> TileKeywordScores(df, product_data)[i]
      [] mtype = "partial" -> PlainScores(df, product_data)[i]

\* C7: under every scoring strategy the returned record has the highest score
\* of all taxonomy records, and of the records that share the highest score
\* it is the earliest in source order.
C7_HighestScoreEarliestRow ==
    (Returned /\ IsMatch(result) /\ result.match_type \in ScoringStrategies) =>
        LET r == RowOf(result)
        IN \A j \in DOMAIN df :
              /\ ScoreUnder(result.match_type, j) <= ScoreUnder(result.match_type, r)
              /\ j < r => ScoreUnder(result.match_type, j) < ScoreUnder(result.match_type, r)

\* C7 witness: a later record shares the top score of the returned record
C7_Witness ==
    /\ Returned /\ IsMatch(result) /\ result.match_type = "construction_aware"
    /\ \E j \in DOMAIN df :
          /\ j > RowOf(result)
          /\ ScoreUnder(result.match_type, j) = ScoreUnder(result.match_type, RowOf(result))

\* the call that has returned repeats the call the observer keeps
RepeatsRemembered ==
    /\ Returned
    /\ DOMAIN remembered # {}
    /\ remembered.classifier = classifier
    /\ remembered.product_data = product_data

\* C8: on one loaded taxonomy two calls of find_category_match with the same
\* descriptor return the same result, whatever calls came between them and in
\* whatever order the keyword sets were turned into lists.
C8_Deterministic == RepeatsRemembered => result = remembered.result

\* C8 witness: a keyword match repeated under another order of the keyword lists
C8_Witness ==
    /\ RepeatsRemembered
    /\ remembered.category_keywords # category_keywords
    /\ IsMatch(result) /\ result.match_type = "enhanced_keyword"

DetectedTerms(pd) == Get(Get(pd, "construction_analysis", <<>>), "detected_terms", {})

IsScrewsCategory(categoria) == Contains("TORNILLO", Upper(categoria))

IsPureDrillBitsCategory(categoria) ==
    Contains("BROCA", Upper(categoria)) /\ ~Contains("TORNILLO", Upper(categoria))

\* the descriptor is tagged TOR and BROCA and the taxonomy has both categories
ScrewAndDrillCase ==
    /\ Returned /\ classifier = "improved"
    /\ {"TOR", "BROCA"} \subseteq DetectedTerms(product_data)
    /\ \E i \in DOMAIN df : IsScrewsCategory(df[i].Categoria)
    /\ \E i \in DOMAIN df : IsPureDrillBitsCategory(df[i].Categoria)

\* C9 as stated: a descriptor tagged TOR and BROCA resolves to the screws
\* category whenever the taxonomy holds a screws and a pure drill-bits category.
C9_AsStated ==
    ScrewAndDrillCase => IsMatch(result) /\ IsScrewsCategory(result.categoria)

\* C9 amended: for a descriptor whose detected terms are exactly TOR and
\* BROCA, whose producto_tipo does not name a CERRADURA and whose hints match
\* no record exactly, and a taxonomy with a screws category and a pure
\* drill-bits category, the resolver returns a screws category by the
\* construction-aware strategy, whatever the order of the records.
C9_ScrewsOverDrillBits ==
    (/\ ScrewAndDrillCase
     /\ DetectedTerms(product_data) = {"TOR", "BROCA"}
     /\ ~Contains("CERRADURA", Upper(Get(product_data, "producto_tipo", "")))
     /\ \A i \in DOMAIN df : ~HintsEqualTrimmedRow(product_data, df[i]))
    => /\ IsMatch(result)
       /\ result.match_type = "construction_aware"
       /\ IsScrewsCategory(result.categoria)

\* C9 witness: the screws category returned from behind the drill-bits category
C9_Witness ==
    /\ ScrewAndDrillCase
    /\ DetectedTerms(product_data) = {"TOR", "BROCA"}
    /\ IsMatch(result) /\ result.match_type = "construction_aware"
    /\ IsPureDrillBitsCategory(df[1].Categoria)
    /\ RowOf(result) = 2

TokensOf(str) == Range(Split(Upper(str)))

\* the tokens of the searchable text the claim lists
SearchableTokens(pd) ==
    UNION { TokensOf(Get(pd, f, "")) :
              f \in {"description", "original_title", "departamento", "familia", "categoria"} }
    \cup { Upper(k) : k \in Range(Get(pd, "palabras_clave_categoria", <<>>)) }

\* with the tokens of the other fields the keyword strategy searches
AllSearchTokens(pd) ==
    SearchableTokens(pd)
    \cup TokensOf(Get(pd, "producto_tipo", ""))
    \cup TokensOf(Get(pd, "categoria_especifica", ""))

CategoryNames == { Upper(Strip(df[i].Categoria)) : i \in DOMAIN df }

CategoryTokens == UNION { Range(Split(c)) : c \in CategoryNames }

\* the entries of every category's keyword list
AllKeywords ==
    UNION { { Upper(k) : k \in Range(category_keywords[e].keywords) } : e \in DOMAIN category_keywords }

Overlaps(a, b) == Contains(a, b) \/ Contains(b, a)

NoDomainRule(pd) ==
    /\ "CHAPA" \notin DetectedTerms(pd)
    /\ ~Contains("CERRADURA", Upper(Get(pd, "producto_tipo", "")))
    /\ ~("TOR" \in DetectedTerms(pd) /\ "BROCA" \in DetectedTerms(pd))

\* C10 as stated: a descriptor whose searchable text shares no token with any
\* category name and which triggers no domain rule resolves to no match.
C10_AsStated ==
    (/\ Returned /\ classifier = "improved"
     /\ SearchableTokens(product_data) \cap CategoryTokens = {}
     /\ NoDomainRule(product_data))
    => result = NoMatch

\* no search term lies in a category name or overlaps a word of one or an
\* entry of a keyword list, and no detected term lies in a category name
NoOverlap(pd) ==
    /\ \A t \in AllSearchTokens(pd) :
          /\ \A c \in CategoryNames : ~Contains(t, c)
          /\ \A w \in CategoryTokens \cup AllKeywords : ~Overlaps(t, w)
    /\ \A term \in DetectedTerms(pd) : \A c \in CategoryNames : ~Contains(term, c)

\* C10 amended: a descriptor none of whose search terms is a substring of a
\* category name, or contains or is contained in a word of a category name or
\* an entry of a category's keyword list, none of whose detected terms is a
\* substring of a category name, and which triggers no domain rule, resolves
\* to no match.
C10_NoOverlapNoMatch ==
    (/\ Returned /\ classifier = "improved"
     /\ NoOverlap(product_data)
     /\ NoDomainRule(product_data))
    => result = NoMatch /\ tried = FixedOrder

\* C10 witness: such a descriptor, with a title and detected terms, met a
\* taxonomy that has records
C10_Witness ==
    /\ Returned /\ classifier = "improved"
    /\ NoOverlap(product_data) /\ NoDomainRule(product_data)
    /\ df # <<>>
    /\ Get(product_data, "original_title", "") # ""
    /\ DetectedTerms(product_data) # {}
    /\ result = NoMatch

(***************************************************************************)
(* Properties of the pipelines                                             *)
(***************************************************************************)
Invoked(agent) == agent \in Range(invoked)

\* the agents were called in the order of Stages, none of them twice
InStageOrder ==
    \A i, j \in DOMAIN invoked :
        i < j => \E a, b \in DOMAIN Stages :
                    a < b /\ invoked[i] = Stages[a] /\ invoked[j] = Stages[b]

\* the item failed before synthesis: no success, an error entry, and neither
\* Synthesis nor the Formatter was invoked
EndedWithoutCategory ==
    /\ ~item.success
    /\ item.errors # <<>>
    /\ ~Invoked("Synthesis") /\ ~Invoked("Formatter")

\* the Formatter is invoked only on a non-empty title Synthesis returned
FormatterAfterTitle ==
    Invoked("Formatter") =>
        /\ Invoked("Synthesis")
        /\ TitleOf(pipeline, item) \notin {None, ""}

\* C11 as stated: the stages run in order, each at most once; Synthesis is
\* invoked only after the Resolver returned a match, the Formatter only after
\* Synthesis returned a non-empty title; when the Resolver returns no match the
\* item ends with success False, an error entry and neither Synthesis nor the
\* Formatter invoked.
C11_AsStated ==
    stage # "idle" =>
        /\ InStageOrder
        /\ Invoked("Synthesis") => Invoked("Resolver") /\ result # NoMatch
        /\ FormatterAfterTitle
        /\ (stage = "returned" /\ Invoked("Resolver") /\ result = NoMatch)
                => EndedWithoutCategory

\* C11 amended: the stages run in order, each at most once; Synthesis is
\* invoked only with a category match, which is the match the Resolver returned
\* or, in CompletePipeline only, the match its keyword search over the taxonomy
\* found after the Resolver returned none; the Formatter is invoked only after
\* Synthesis returned a non-empty title; an item without a category match ends
\* with success False, an error entry and neither Synthesis nor the Formatter
\* invoked.
C11_StageOrder ==
    stage # "idle" =>
        /\ InStageOrder
        /\ Invoked("Synthesis") =>
                /\ Invoked("Resolver")
                /\ item.category_match # NoMatch
                /\ \/ item.category_match = result
                   \/ /\ pipeline = Complete
                      /\ result = NoMatch
                      /\ item.category_match.match_type = "fuzzy_keyword"
        /\ FormatterAfterTitle
        /\ (stage = "returned" /\ Invoked("Resolver") /\ item.category_match = NoMatch)
                => EndedWithoutCategory

\* C11 witness: CompletePipeline went on to Synthesis with the match of its
\* keyword search after its classifier had returned none
C11_Witness ==
    /\ pipeline = Complete
    /\ stage = "returned"
    /\ invoked = <<"Extractor", "Resolver", "Synthesis">>
    /\ result = NoMatch
    /\ item.category_match # NoMatch

\* the dict Synthesis wrote to holds every field of the descriptor unchanged
SourceFieldsKept ==
    \A key \in DOMAIN product_data :
        key \in DOMAIN enhanced_product_data /\ enhanced_product_data[key] = product_data[key]

\* the steps that call the Resolver and Synthesis leave the descriptor alone
DescriptorKept == stage \in {"parsed", "resolved"} => product_data' = product_data

AloneResult(t) == ImprovedFindCategoryMatch(df, category_keywords, calls[t].product_data)

\* C13: no call to find_category_match writes the loaded taxonomy or the
\* keyword index, and under every interleaving of concurrent calls on distinct
\* descriptors against one loaded classifier each call returns what it returns
\* when it runs alone.
C13_Independent ==
    /\ [][UNCHANGED <<df, category_keywords>>]_vars
    /\ [](\A t \in Threads :
            calls[t].at = ReturnedAt =>
                /\ calls[t].result = AloneResult(t).result
                /\ calls[t].tried = AloneResult(t).tried)

\* C13 witness: one call returned a match while a call on another descriptor
\* was between two strategies
C13_Witness ==
    \E t, u \in Threads :
        /\ calls[t].at = ReturnedAt /\ calls[t].result # NoMatch
        /\ calls[u].at \in 2..Len(ImprovedCascade)
        /\ calls[u].product_data # calls[t].product_data

\* C14: whichever optional fields of the descriptor are missing (absent or
\* null), find_category_match completes without an exception, and its result
\* is the one the fields that are there give
C14_MissingTolerated ==
    /\ pc # "raised"
    /\ pc = "returned" =>
          result = ImprovedFindCategoryMatch(df, category_keywords, Present(product_data)).result

\* C15: whatever the title and the budget the formatter was constructed with,
\* the label format_store_label returns is at most max_length characters long
C15_WithinBudget == stage = "returned" => Len(item.label) <= formatter.max_length

\* the service failed at a step of the synthesis: it raised, or its text is
\* not what the step can use
FailedReply(step, reply) ==
    IF step = "title" THEN ~HasContent(reply) ELSE ~ParsesUnfenced(reply)

SomeStepFailed(replies) == \E step \in DOMAIN replies : FailedReply(step, replies[step])

\* C16: when the service fails or returns unparseable text at a step of the
\* synthesis, generate_ecommerce_title raises nothing and returns a title
\* that is a non-empty string
C16_FallbackOnFailure ==
    stage = "returned" /\ SomeStepFailed(item.replies) =>
        ~item.title.raised /\ item.title.value # ""

\* the source is there and has the five required columns
CompleteSource == source # NoData /\ RequiredColumns \subseteq source.columns

\* C17: a load whose source is missing or lacks a required column fails at
\* load time, so a classifier is served from a complete taxonomy only and no
\* later find_category_match errors on a missing column
C17_LoadValidates ==
    /\ classifier # "none" => CompleteSource
    /\ pc # "raised"

\* the three hints equal the three fields of the row once both sides are
\* trimmed and folded to upper case
HintsEqualAllTrimmed(pd, row) ==
    /\ Upper(Strip(Get(pd, "departamento", ""))) = Upper(Strip(row.Departamento))
    /\ Upper(Strip(Get(pd, "familia", ""))) = Upper(Strip(row.Familia))
    /\ Upper(Strip(Get(pd, "categoria", ""))) = Upper(Strip(row.Categoria))

\* C18: hints that equal the department, family and category of a record once
\* whitespace is trimmed and case is folded match that record: the exact
\* lookup returns the first such record in source order, with the record's
\* own casing of department and family
C18_TrimmedExactLookup ==
    Returned =>
        \A i \in DOMAIN df :
            (/\ HintsEqualAllTrimmed(product_data, df[i])
             /\ \A j \in 1..(i - 1) : ~HintsEqualAllTrimmed(product_data, df[j]))
            => /\ IsMatch(result)
               /\ result.match_type \in ExactTypes
               /\ RowOf(result) = i
               /\ result.departamento = df[i].Departamento
               /\ result.familia = df[i].Familia

\* the upper-cased raw title of the call
RawTitle == Upper(Get(product_data, "original_title", ""))

\* the title holds a name of the pattern lexicon
HasLexiconName == PatternNameIn(RawTitle) # ""

\* the title triggers the pre-pass by a known dimension pair only
DimensionOnly == ~HasLexiconName /\ HasCommonTileSize(RawTitle)

\* the record belongs to the target family
InTargetFamily(row) ==
    Upper(row.Departamento) = "REVESTIMIENTOS" /\ Upper(row.Familia) = "CERAMICA DE PISOS"

\* the taxonomy has the category in the target family
TargetFamilyHas(categoria) ==
    \E i \in DOMAIN df : InTargetFamily(df[i]) /\ Upper(df[i].Categoria) = categoria

\* the taxonomy has a generic tile category in the target family
TargetFamilyHasGeneric ==
    \E i \in DOMAIN df : InTargetFamily(df[i]) /\ Contains("BALDOSA", Upper(df[i].Categoria))

\* the call returned after the pre-pass ran
PrePassRan == Returned /\ classifier = "tile" /\ "tile_pattern" \in Range(tried)

\* the call returned a record of the pre-pass
PrePassMatch ==
    /\ PrePassRan /\ IsMatch(result)
    /\ result.match_type \in {"tile_pattern_match", "tile_generic_match"}

\* C19 as stated: the pre-pass returns confidence 0.95 exactly when the title
\* contains a name of the pattern lexicon and the taxonomy has the category
\* the name maps to, and confidence 0.85 when a known dimension pair alone
\* triggered it; every record it returns belongs to the target family.
C19_AsStated ==
    PrePassRan =>
        /\ (PrePassMatch /\ result.confidence = 285)
              <=> (HasLexiconName /\ TargetFamilyHas(PatternNameIn(RawTitle)))
        /\ PrePassMatch /\ DimensionOnly => result.confidence = 255
        /\ PrePassMatch => InTargetFamily(df[RowOf(result)])

\* the category the pre-pass looks for: the one the lexicon name maps to, or
\* MONOCOLOR for a dimension pair alone
TargetCategory == IF HasLexiconName THEN PatternNameIn(RawTitle) ELSE "MONOCOLOR"

\* C19 amended: for a title that holds a lexicon name or a known dimension
\* pair, the pre-pass returns confidence 0.95 exactly when the target family
\* has the target category (the one the name maps to, MONOCOLOR for a
\* dimension pair alone), confidence 0.85 exactly when it has not but has a
\* generic tile category (BALDOSA), and nothing otherwise; for any other
\* title it returns nothing; every record it returns belongs to the target
\* family.
C19_TargetCategoryDecides ==
    PrePassRan =>
        /\ (PrePassMatch /\ result.confidence = 285)
              <=> ((HasLexiconName \/ DimensionOnly) /\ TargetFamilyHas(TargetCategory))
        /\ (PrePassMatch /\ result.confidence = 255)
              <=> (/\ HasLexiconName \/ DimensionOnly
                   /\ ~TargetFamilyHas(TargetCategory)
                   /\ TargetFamilyHasGeneric)
        /\ PrePassMatch => /\ result.confidence \in {255, 285}
                           /\ InTargetFamily(df[RowOf(result)])

\* C19 witness: a title with a known dimension pair and no lexicon name gets
\* the MONOCOLOR record with confidence 0.95
C19_Witness ==
    /\ PrePassMatch /\ DimensionOnly
    /\ result.confidence = 285
    /\ result.categoria = "MONOCOLOR"

\* C20: the dimensions the parser extracts are the full dimension text of the
\* title: a title containing "15x93x3.5" yields "15x93x3.5", and the title
\* "60x60" without a unit yields "60x60"
C20_FullDimensionText ==
    (pipeline \in {Updated, Complete} /\ Invoked("Extractor")) =>
        /\ Contains("15x93x3.5", item.input_title) =>
                Get(item.parsed_data, "dimensions", None) = "15x93x3.5"
        /\ item.input_title = "60x60" =>
                Get(item.parsed_data, "dimensions", None) = "60x60"

(***************************************************************************)
(* Properties of the extraction                                            *)
(***************************************************************************)
\* the extractor of UpdatedCompletePipeline has returned the descriptor of the item
ImprovedExtracted ==
    pipeline = Updated /\ stage # "started" /\ stage # "idle" /\ item.parsed_data # NoData

\* the tokens of the upper-cased title that are keys of the vocabulary
VocabularyTokens(title) == { t \in Range(Split(Upper(title))) : t \in DOMAIN ConstructionVocab }

\* C21: every token of the upper-cased raw title that is a key of the
\* construction vocabulary is among the detected domain terms of the
\* descriptor, with its mapped meaning, so a title with such a token reaches
\* the resolver with non-empty detected terms.
C21_VocabularyTagged ==
    ImprovedExtracted =>
        \A t \in VocabularyTokens(item.input_title) :
            /\ "construction_analysis" \in DOMAIN item.parsed_data
            /\ "detected_terms" \in DOMAIN item.parsed_data.construction_analysis
            /\ t \in DOMAIN item.parsed_data.construction_analysis.detected_terms
            /\ item.parsed_data.construction_analysis.detected_terms[t] = ConstructionVocab[t]

\* a parser has returned the descriptor of a title
Parsed == stage = "returned" /\ item # NoData /\ "rule_data" \in DOMAIN item

\* the colors of the parser's list that the title holds as whole words
ColorsPresent == { c \in Range(ColorsOf(item.parser)) : SearchWord(c, item.input_title) }

\* where a color of the title first stands as a whole word
FirstPlace(color) ==
    CHOOSE k \in WordMatches(item.input_title, 1, color) :
        \A h \in WordMatches(item.input_title, 1, color) : k <= h

\* where a color stands in the list of the parser
ListPlace(color) == CHOOSE i \in DOMAIN ColorsOf(item.parser) : ColorsOf(item.parser)[i] = color

ColorAbsentIffNone == (ColorsPresent = {}) <=> ("color" \notin DOMAIN item.rule_data)

\* C22 as stated: of several color names in the title, the extracted color is
\* the one that occurs leftmost in the title.
C22_AsStated ==
    Parsed =>
        /\ ColorAbsentIffNone
        /\ \A c \in ColorsPresent :
              (\A other \in ColorsPresent : FirstPlace(c) <= FirstPlace(other))
                  => item.rule_data.color = Title(c)

\* C22 amended: the extracted color is a color name the title holds as a whole
\* word, case-insensitively, and no color name that stands before it in the
\* closed list occurs in the title; without any, the color field is absent.
C22_FirstInListOrder ==
    Parsed =>
        /\ ColorAbsentIffNone
        /\ ColorsPresent # {} =>
              \E c \in ColorsPresent :
                  /\ item.rule_data.color = Title(c)
                  /\ \A other \in ColorsPresent : ListPlace(c) <= ListPlace(other)

\* a title with two color names, the leftmost of which is later in the list
C22_Witness ==
    /\ Parsed
    /\ \E c, other \in ColorsPresent :
          /\ FirstPlace(c) < FirstPlace(other)
          /\ ListPlace(other) < ListPlace(c)
          /\ item.rule_data.color = Title(other)

(***************************************************************************)
(* Properties of the scores                                                *)
(***************************************************************************)
\* the call returned a record of the construction-aware strategy
DomainAwareReturned == Returned /\ IsMatch(result) /\ result.match_type = "construction_aware"

DoorHardwareCase == "CHAPA" \in DetectedTerms(product_data)
                    \/ Contains("CERRADURA", Upper(Get(product_data, "producto_tipo", "")))

SelfDrillingCase == {"TOR", "BROCA"} \subseteq DetectedTerms(product_data)

NamesAny(categoria, words) == \E word \in words : Contains(word, categoria)

\* 50 for each detected term that the category name holds
OverlapPoints(categoria) ==
    50 * Cardinality({ term \in DetectedTerms(product_data) : Contains(term, categoria) })

\* the door-hardware rule: +100 for its target categories, -50 for plumbing ones
DoorAdjustment(categoria) ==
    IF ~DoorHardwareCase THEN 0
    ELSE (IF NamesAny(categoria, {"CHAPA", "CERRADURA", "HERRAJE"}) THEN 100 ELSE 0)
         + (IF NamesAny(categoria, {"GRIFO", "LLAVE", "AGUA"}) THEN -50 ELSE 0)

\* the self-drilling-screw rule: +100 or +80 for screw categories, the penalty
\* for categories of drill bits that are no screws
ScrewAdjustment(categoria, drill_penalty) ==
    IF ~SelfDrillingCase THEN 0
    ELSE IF Contains("TORNILLO", categoria)
    THEN (IF NamesAny(categoria, {"BROCA", "AUTORROSCANTE"}) THEN 100 ELSE 80)
    ELSE IF Contains("BROCA", categoria) THEN drill_penalty
    ELSE 0

ScoreWithPenalty(categoria, drill_penalty) ==
    OverlapPoints(categoria) + DoorAdjustment(categoria)
        + ScrewAdjustment(categoria, drill_penalty)

\* C23 as stated: the score is 50 per overlapping term plus adjustments drawn
\* from +100, +80 and -50 only, -50 also for pure drill-bit categories under
\* the self-drilling-screw rule.
C23_AsStated ==
    DomainAwareReturned => result.score = ScoreWithPenalty(Upper(result.categoria), -50)

\* C23 amended: the adjustments are drawn from +100, +80, -50 and -30; the
\* penalty for pure drill-bit categories under the self-drilling-screw rule
\* is -30, the one for plumbing categories under the door rule is -50.
C23_DomainScore ==
    DomainAwareReturned => result.score = ScoreWithPenalty(Upper(result.categoria), -30)

\* a drill-bit category returned for a self-drilling screw, penalty included
C23_Witness ==
    /\ DomainAwareReturned
    /\ SelfDrillingCase
    /\ Contains("BROCA", Upper(result.categoria))
    /\ ~Contains("TORNILLO", Upper(result.categoria))
    /\ result.score = 70

ConnectorWords == {"Y", "PARA"}

\* the tokens of an upper-cased category name, its connector words apart
NameTokens(categoria) == { t \in Range(Split(categoria)) : t \notin ConnectorWords }

\* the synonym table: trigger substrings and the synonyms they bring
SynonymTable ==
    { [triggers |-> {"CHAPA", "CERRADURA"}, synonyms |-> {"MANIJA", "PICAPORTE", "HERRAJE", "PUERTA"}],
      [triggers |-> {"TORNILLO", "FIJACION"}, synonyms |-> {"TOR", "PERNO", "FIJADOR", "SUJECION"}],
      [triggers |-> {"BROCA"}, synonyms |-> {"PUNTA", "MECHA", "PERFORACION"}],
      [triggers |-> {"GRIFO", "LLAVE"}, synonyms |-> {"AGUA", "PLOMERIA", "GRIFERIA"}],
      [triggers |-> {"COCINA"}, synonyms |-> {"KITCHEN"}] }

\* C24: the keyword set built for a category at load holds every token of the
\* upper-cased category name, the connector words Y and PARA apart, unaltered,
\* and the synonyms of every synonym-table entry one of whose triggers occurs
\* in the category name.
C24_KeywordsHoldNameTokens ==
    \A i \in DOMAIN category_keywords :
        /\ NameTokens(category_keywords[i].categoria) \subseteq Range(category_keywords[i].keywords)
        /\ \A entry \in SynonymTable :
              NamesAny(category_keywords[i].categoria, entry.triggers)
                  => entry.synonyms \subseteq Range(category_keywords[i].keywords)

\* the tokens the fuzzy strategy reads, as often as the text holds them
FuzzyTokens == FuzzySearchWords(product_data)

\* a token overlaps a word of the category name, one holding the other
OverlapsWord(token, categoria) ==
    \E w \in Range(Split(categoria)) : Contains(token, w) \/ Contains(w, token)

\* twice what one token adds: its length when the category name holds it,
\* half its length when it overlaps a word of the name, tokens of one or two
\* characters nothing
TokenPoints2(token, categoria) ==
    IF Len(token) <= 2 THEN 0
    ELSE IF Contains(token, categoria) THEN 2 * Len(token)
    ELSE IF OverlapsWord(token, categoria) THEN Len(token)
    ELSE 0

\* twice the fuzzy score of the i-th record
FuzzyPoints2(i) ==
    SumSeq([k \in DOMAIN FuzzyTokens |->
                TokenPoints2(FuzzyTokens[k], Upper(Strip(df[i].Categoria)))])

FuzzyTried == Returned /\ classifier = "improved" /\ tried = FixedOrder

\* C25: the fuzzy strategy scores tokens longer than 2 characters only, the
\* length for a token the category name holds, half the length for a token
\* that overlaps a word of the name; its best record is returned iff
\* min(score/30, 1) > 0.15: a best score of 4.5 is rejected, one of 5 accepted.
C25_FuzzyScoring ==
    FuzzyTried =>
        /\ result # NoMatch =>
              /\ result.match_type = "fuzzy"
              /\ \E i \in DOMAIN df :
                    /\ RowOf(result) = RowOf(MatchOf(df[i], "fuzzy"))
                    /\ result.score = FuzzyPoints2(i)
                    /\ \A j \in DOMAIN df : FuzzyPoints2(j) <= FuzzyPoints2(i)
              /\ result.score >= 10
              /\ result.confidence = Min(5 * result.score, ConfUnit)
        /\ result = NoMatch => \A i \in DOMAIN df : FuzzyPoints2(i) <= 9

\* a best score of 5 was accepted
C25_Witness ==
    /\ FuzzyTried /\ result # NoMatch /\ result.score = 10

\* a best score of 4.5 was rejected
C25_WitnessRejected ==
    /\ FuzzyTried /\ result = NoMatch /\ \E i \in DOMAIN df : FuzzyPoints2(i) = 9


\* C26: for every title, the empty one included, and every reply of the
\* enrichment service (an exception, no JSON, JSON with any fields),
\* parse_title_to_product_data returns a descriptor whose original_title is
\* the title it was given, and a field that was not extracted is absent
\* from the descriptor rather than present without a value.
C26_TitleKept ==
    Parsed =>
        /\ "original_title" \in DOMAIN item.parsed_data
        /\ item.parsed_data.original_title = item.input_title
        /\ \A field \in DOMAIN item.parsed_data : item.parsed_data[field] # None


(***************************************************************************)
(* Properties of the synthesis with category validation                    *)
(***************************************************************************)
EnhancedReturned == stage = "returned" /\ item # NoData /\ item.generator = Enhanced

\* the research suggested a category and the validation judged the
\* resolver's category wrong with medium or high severity
CorrectionJudged(replies) ==
    /\ ParsesUnfenced(replies.research)
    /\ Get(replies.research.json.data, "product_category", "") # ""
    /\ ParsesUnfenced(replies.validation)
    /\ Get(replies.validation.json.data, "category_makes_sense", TRUE) = FALSE
    /\ Get(replies.validation.json.data, "severity", None) \in {"medium", "high"}

\* C27: when the validation produces no correction (research failed or
\* suggested no category, the category judged sensible, or the severity low)
\* generate_ecommerce_title of EnhancedTitleGenerator works from the
\* resolver's record: it does not raise and returns a title string.
C27_TitleWithoutCorrection ==
    EnhancedReturned /\ ~CorrectionJudged(item.replies) => ~item.title.raised


(***************************************************************************)
(* Properties of the results of the pipelines                              *)
(***************************************************************************)
ItemReturned == stage = "returned" /\ pipeline \in Pipelines /\ "success" \in DOMAIN item

\* the entry the except clause writes
IsPipelineError(entry) ==
    Len(entry) >= 16 /\ SubSeq(entry, 1, 16) = "Pipeline error: "

\* the stage invoked last raised: the resolver on a null hint or description,
\* the generators as their own properties tell
LastStageRaised ==
    /\ invoked # <<>>
    /\ item.store_label = None
    /\ \/ /\ invoked[Len(invoked)] = "Resolver"
          /\ item.category_match = NoMatch
          /\ \A e \in Range(item.errors) : e # NoCategoryError(pipeline)
       \/ /\ invoked[Len(invoked)] = "Synthesis"
          /\ TitleOf(pipeline, item) = None
          /\ \A e \in Range(item.errors) : e # NoTitleError(pipeline)

\* C28: in a result returned by process_raw_title or process_product,
\* success is True only with category_match, the title and store_label set
\* and no error entry; with success False store_label is unset and there is
\* an error entry; and a stage that raised left the entry of the except
\* clause in the result, which is returned like any other.
C28_ResultConsistent ==
    ItemReturned =>
        /\ item.success =>
              /\ item.category_match # NoMatch
              /\ TitleOf(pipeline, item) \notin {None, ""}
              /\ item.store_label # None
              /\ item.errors = <<>>
        /\ ~item.success => item.store_label = None /\ item.errors # <<>>
        /\ LastStageRaised => \E e \in Range(item.errors) : IsPipelineError(e)

\* a stage raised and the result came back with the entry
C28_Witness ==
    /\ ItemReturned /\ ~item.success /\ LastStageRaised
    /\ \E e \in Range(item.errors) : IsPipelineError(e)

\* an item went through all stages
C28_WitnessSuccess == ItemReturned /\ item.success /\ item.store_label # None


(***************************************************************************)
(* Properties of the batches                                               *)
(***************************************************************************)
BatchReturned == stage = "returned" /\ item # NoData /\ "returned" \in DOMAIN item

\* the input a result was made of
InputOf(r) == IF "input" \in DOMAIN r THEN r.input ELSE r.input_title

\* C29: a batch call does not raise and returns one result per input, the
\* i-th made of the i-th input, for every list of inputs, the empty list
\* included and whatever the items' results are.
C29_OneResultPerInput ==
    BatchReturned =>
        /\ ~item.returned.raised
        /\ Len(item.returned.value) = Len(item.inputs)
        /\ \A i \in DOMAIN item.inputs : InputOf(item.returned.value[i]) = item.inputs[i]


(***************************************************************************)
(* Properties of the messy parser                                          *)
(***************************************************************************)
MessyMatched == stage = "returned" /\ classifier = "SmartMessyParser"

\* the parser put a department/family/category triple into its result
HasTriple(pd) == {"departamento", "familia", "categoria"} \subseteq DOMAIN pd

\* the rows of the taxonomy that have the triple of the descriptor, letter
\* for letter
RowsWithTriple(pd) ==
    { i \in DOMAIN df : /\ df[i].Departamento = pd.departamento
                        /\ df[i].Familia = pd.familia
                        /\ df[i].Categoria = pd.categoria }

\* the text after the product title holds the triple of a row in full
FullTripleInText(text) ==
    \E i \in DOMAIN df :
        \A phrase \in {df[i].Departamento, df[i].Familia, df[i].Categoria} :
            \A word \in Range(Split(Upper(phrase))) : Len(word) > 2 => Contains(word, text)

\* C30: a triple that parse_messy_title puts into its result is the triple
\* of a row of the taxonomy, and find_best_category_match on that result
\* returns that row with match type intelligent_structured and the
\* confidence of the parser (0.9 for a triple found in full, 0.7 for one
\* found by an indicator), never the tile pattern match and never None.
C30_TripleResolves ==
    MessyMatched /\ HasTriple(product_data) =>
        /\ RowsWithTriple(product_data) # {}
        /\ result # NoMatch
        /\ result.match_type = "intelligent_structured"
        /\ \E i \in RowsWithTriple(product_data) :
              /\ result.nomenclatura_sugerida = df[i].Nomenclatura_sugerida
              /\ result.ejemplo_aplicado = df[i].Ejemplo_aplicado
              /\ result.departamento = df[i].Departamento
              /\ result.familia = df[i].Familia
              /\ result.categoria = df[i].Categoria
        /\ result.confidence = product_data.confidence
        /\ result.confidence = IF FullTripleInText(item.remaining_text)
                               THEN (9 * ConfUnit) \div 10 ELSE (7 * ConfUnit) \div 10

\* an indicator gave the triple, on a title with a tile pattern
C30_Witness ==
    /\ MessyMatched /\ HasTriple(product_data)
    /\ result.match_type = "intelligent_structured"
    /\ result.confidence = (7 * ConfUnit) \div 10
    /\ Contains("CAPRI", product_data.original_title)

\* a triple found in full, in another case than the row's
C30_WitnessFull ==
    /\ MessyMatched /\ HasTriple(product_data)
    /\ result.confidence = (9 * ConfUnit) \div 10
    /\ product_data.categoria = "Baldosa"

=============================================================================
